---- MODULE Spec2Model ----
(***************************************************************************)
(* Ice sliding puzzle maker (ice-sliding-puzzle.cpp): the Puzzle storage    *)
(* with its sentinel ring, the slide-distance solver max_distance with its  *)
(* process-wide buffers, and the search strategies built on it.             *)
(***************************************************************************)
EXTENDS Integers, Sequences, FiniteSets, TLC

(***************************************************************************)
(* Compile-time sizes.  The source sets MAX_W = MAX_H = 32 (and names 16 as *)
(* an alternative); they are the row stride and the buffer height.  The     *)
(* model scales them down: every index computation below is written against *)
(* MAX_W and MAX_H exactly as in the source, so only the sizes differ.      *)
(***************************************************************************)
MAX_W == 8
MAX_H == 6
UNREACHABLE == MAX_W * MAX_H + 1
SENTINELS == TRUE

\* bool grid[MAX_W*(SENTINELS ? MAX_H+2 : MAX_H)]
GridSize == MAX_W * (IF SENTINELS THEN MAX_H + 2 ELSE MAX_H)
\* operator[] adds this offset to a Coord
GridOffset == IF SENTINELS THEN MAX_W ELSE 0
\* int dists[MAX_W*MAX_H], pass_dists[MAX_W*MAX_H]
BufSize == MAX_W * MAX_H

(***************************************************************************)
(* Coord: x + y*MAX_W                                                       *)
(***************************************************************************)
Coord(x, y) == x + y * MAX_W
row(pos) == pos \div MAX_W
col(pos) == pos % MAX_W

(***************************************************************************)
(* Puzzle storage.  A flag is "T" or "F"; "U" marks a flag no statement has *)
(* written yet (the constructors leave the array uninitialised).  Reading   *)
(* a "U" flag has no defined value: Flag has no case for it, so TLC stops   *)
(* with an error on any evaluation that reads one.                          *)
(***************************************************************************)
Flag(v) == CASE v = "T" -> TRUE [] v = "F" -> FALSE

\* std::fill_n(&a[from], n, v)
fill_n(a, from, n, v) ==
  [i \in DOMAIN a |-> IF from <= i /\ i < from + n THEN v ELSE a[i]]

\* init_sentinels, setting the two sentinel rows and no sentinel column
init_sentinels_rows(g, w, h) ==
  IF SENTINELS
  THEN fill_n(fill_n(g, 0, MAX_W, "T"), MAX_W * (h + 1), MAX_W, "T")
  ELSE g

\* Puzzle::init_sentinels on the grid array g of a puzzle of size w, h
init_sentinels(g, w, h) ==
  IF SENTINELS
  THEN LET g1 == fill_n(g, 0, MAX_W, "T")
           g2 == fill_n(g1, MAX_W * (h + 1), MAX_W, "T")
       IN [i \in DOMAIN g2 |->
             IF \E y \in 0 .. h - 1 : i = (y + 1) * MAX_W - 1 \/ i = (y + 1) * MAX_W + w
             THEN "T" ELSE g2[i]]
  ELSE g

\* Puzzle::clear
clear(p) ==
  [p EXCEPT !.grid = init_sentinels(fill_n(p.grid, GridOffset, MAX_W * p.h, "F"), p.w, p.h)]

\* Puzzle(int w, int h): start = 0, grid uninitialised, then clear()
NewPuzzle(w, h) ==
  clear([w |-> w, h |-> h, start |-> 0, grid |-> [i \in 0 .. GridSize - 1 |-> "U"]])

\* bool operator[](Coord pos) const
At(p, pos) == Flag(p.grid[pos + GridOffset])

\* bool& operator[](Coord pos), assigned b
SetAt(p, pos, b) == [p EXCEPT !.grid[pos + GridOffset] = IF b THEN "T" ELSE "F"]

\* Puzzle::iterator::operator++ applied to position pos of a puzzle of width w
IterNext(pos, w) ==
  LET n == pos + 1 IN IF n % MAX_W = w THEN n - w + MAX_W ELSE n

\* Puzzle::begin, Puzzle::end
IterBegin(p) == 0
IterEnd(p) == p.h * MAX_W

\* the Coords a range-for over the puzzle visits, in order
RECURSIVE CellsFrom(_, _, _)
CellsFrom(pos, w, end) ==
  IF pos >= end THEN << >> ELSE << pos >> \o CellsFrom(IterNext(pos, w), w, end)
Cells(p) == CellsFrom(IterBegin(p), p.w, IterEnd(p))
CellSet(p) == {Coord(x, y) : x \in 0 .. p.w - 1, y \in 0 .. p.h - 1}

\* Puzzle::count_obstacles
count_obstacles(p) ==
  LET cs == Cells(p) IN Cardinality({i \in 1 .. Len(cs) : At(p, cs[i])})

(***************************************************************************)
(* Bind(e, F) is F(e).  It has TLC compute e once, before F, and hand F the *)
(* value: the loops below thread their state through it, one pass after the *)
(* other, as the program does.                                              *)
(***************************************************************************)
Bind(e, F(_)) == CHOOSE r \in {F(t) : t \in {e}} : TRUE

(***************************************************************************)
(* max_distance: the solver.  bufs = [dists, pass_dists] is the content of  *)
(* the two global buffers at the call; the result carries their content at  *)
(* return and the returned max_dist.  s is the state of the call: the two   *)
(* buffers, queue with queue_start (queue_end is the length of queue),      *)
(* max_dist, and p, the cell the last slide ended on.                       *)
(***************************************************************************)
deltas == << -1, 1, -MAX_W, MAX_W >>

\* Slide, counting the cell passed as one move further than it is
RECURSIVE Slide_far(_, _, _, _, _)
Slide_far(puzzle, p, delta, dist, s) ==
  LET p2 == p + delta IN
  IF At(puzzle, p2) THEN [s EXCEPT !.p = p]
  ELSE Slide_far(puzzle, p2, delta, dist,
                 IF s.pass_dists[p2] > dist + 2
                 THEN [s EXCEPT !.pass_dists[p2] = dist + 2, !.max_dist = dist + 2]
                 ELSE s)

\* Slide, stopping one cell before the obstacle or the edge
RECURSIVE Slide_short(_, _, _, _, _)
Slide_short(puzzle, p, delta, dist, s) ==
  LET p2 == p + delta IN
  IF At(puzzle, p2) \/ At(puzzle, p2 + delta) THEN [s EXCEPT !.p = p]
  ELSE Slide_short(puzzle, p2, delta, dist,
                   IF s.pass_dists[p2] > dist + 1
                   THEN [s EXCEPT !.pass_dists[p2] = dist + 1, !.max_dist = dist + 1]
                   ELSE s)

\* Slide, writing the pass distance of every cell passed, lower or not
RECURSIVE Slide_overwrite(_, _, _, _, _)
Slide_overwrite(puzzle, p, delta, dist, s) ==
  LET p2 == p + delta IN
  IF At(puzzle, p2) THEN [s EXCEPT !.p = p]
  ELSE Slide_overwrite(puzzle, p2, delta, dist,
                       IF s.pass_dists[p2] > dist + 1
                       THEN [s EXCEPT !.pass_dists[p2] = dist + 1, !.max_dist = dist + 1]
                       ELSE [s EXCEPT !.pass_dists[p2] = dist + 1])

\* the inner while (true) loop: slide from p in direction delta
RECURSIVE Slide(_, _, _, _, _)
Slide(puzzle, p, delta, dist, s) ==
  LET p2 == p + delta IN
  IF At(puzzle, p2) THEN [s EXCEPT !.p = p]
  ELSE Slide(puzzle, p2, delta, dist,
             IF s.pass_dists[p2] > dist + 1
             THEN [s EXCEPT !.pass_dists[p2] = dist + 1, !.max_dist = dist + 1]
             ELSE s)

\* Direction, recording the resting cell one move too early
Direction_early(puzzle, pos, dist, i, s) ==
  Bind(Slide(puzzle, pos, deltas[i], dist, s),
       LAMBDA t : IF t.dists[t.p] > dist + 1
                  THEN [t EXCEPT !.dists[t.p] = dist, !.queue = Append(t.queue, t.p)]
                  ELSE t)

\* one pass of the for (i = 0; i < 4; ++i) body
Direction(puzzle, pos, dist, i, s) ==
  Bind(Slide(puzzle, pos, deltas[i], dist, s),
       LAMBDA t : IF t.dists[t.p] > dist + 1
                  THEN [t EXCEPT !.dists[t.p] = dist + 1, !.queue = Append(t.queue, t.p)]
                  ELSE t)

\* the for (i = 0; i < 4; ++i) loop, from pass i on (deltas is indexed from 1)
RECURSIVE Directions(_, _, _, _, _)
Directions(puzzle, pos, dist, i, s) ==
  IF i > 4 THEN s
  ELSE Bind(Direction(puzzle, pos, dist, i, s),
            LAMBDA t : Directions(puzzle, pos, dist, i + 1, t))

\* Bfs taking the newest queue entry first (a stack instead of a FIFO queue)
RECURSIVE Bfs_lifo(_, _)
Bfs_lifo(puzzle, s) ==
  IF Len(s.queue) > 0
  THEN LET pos == s.queue[Len(s.queue)]
           dist == s.dists[pos]
       IN Bind(Directions(puzzle, pos, dist, 1,
                          [s EXCEPT !.queue = SubSeq(s.queue, 1, Len(s.queue) - 1)]),
               LAMBDA t : Bfs_lifo(puzzle, t))
  ELSE s

\* the while (queue_start < queue_end) loop
RECURSIVE Bfs(_, _)
Bfs(puzzle, s) ==
  IF s.queue_start < Len(s.queue)
  THEN LET pos == s.queue[s.queue_start + 1]
           dist == s.dists[pos]
       IN Bind(Directions(puzzle, pos, dist, 1, [s EXCEPT !.queue_start = s.queue_start + 1]),
               LAMBDA t : Bfs(puzzle, t))
  ELSE s

\* FillCount, resetting as many entries as the grid has cells
FillCount_cells(puzzle) == puzzle.w * puzzle.h

\* how many entries of each buffer max_distance resets
FillCount(puzzle) == MAX_W * puzzle.h

max_distance(puzzle, bufs) ==
  Bind([queue |-> << puzzle.start >>, queue_start |-> 0, max_dist |-> 0, p |-> 0,
        dists |-> [fill_n(bufs.dists, 0, FillCount(puzzle), UNREACHABLE)
                     EXCEPT ![puzzle.start] = 0],
        pass_dists |-> [fill_n(bufs.pass_dists, 0, FillCount(puzzle), UNREACHABLE)
                          EXCEPT ![puzzle.start] = 0]],
       LAMBDA s0 :
         Bind(Bfs(puzzle, s0),
              LAMBDA s : [ret |-> s.max_dist, dists |-> s.dists, pass_dists |-> s.pass_dists]))

\* the buffers as the program starts: globals are zero-initialised
ZeroBufs == [dists |-> [i \in 0 .. BufSize - 1 |-> 0],
             pass_dists |-> [i \in 0 .. BufSize - 1 |-> 0]]

(***************************************************************************)
(* The distance entries the loop of max_distance indexes.  SolverExit is    *)
(* the state of the call when the while loop ends; its queue holds every    *)
(* cell that was queued, in order.  The loop indexes dists at each queued   *)
(* cell (lines 183, 207, 208: the resting cell of a slide is queued or was  *)
(* queued before) and pass_dists at each cell a slide moves onto (lines     *)
(* 201, 202).                                                               *)
(***************************************************************************)
SolverEntry(puzzle, bufs) ==
  [queue |-> << puzzle.start >>, queue_start |-> 0, max_dist |-> 0, p |-> 0,
   dists |-> [fill_n(bufs.dists, 0, FillCount(puzzle), UNREACHABLE) EXCEPT ![puzzle.start] = 0],
   pass_dists |-> [fill_n(bufs.pass_dists, 0, FillCount(puzzle), UNREACHABLE)
                     EXCEPT ![puzzle.start] = 0]]

SolverExit(puzzle, bufs) ==
  Bind(SolverEntry(puzzle, bufs), LAMBDA s0 : Bfs(puzzle, s0))

\* the cells p2 the inner loop moves onto, sliding from p in direction delta
RECURSIVE SlideCells(_, _, _)
SlideCells(puzzle, p, delta) ==
  LET p2 == p + delta IN
  IF At(puzzle, p2) THEN {} ELSE {p2} \cup SlideCells(puzzle, p2, delta)

\* the slide's resting cell
RECURSIVE SlideEnd(_, _, _)
SlideEnd(puzzle, p, delta) ==
  LET p2 == p + delta IN
  IF At(puzzle, p2) THEN p ELSE SlideEnd(puzzle, p2, delta)

LoopIndexes(puzzle, queue) ==
  UNION {{queue[n]} \cup UNION {SlideCells(puzzle, queue[n], deltas[i]) : i \in 1 .. 4}
                    \cup {SlideEnd(puzzle, queue[n], deltas[i]) : i \in 1 .. 4}
         : n \in 1 .. Len(queue)}

\* the entries the two fill_n calls write
ResetIndexes(puzzle) == 0 .. FillCount(puzzle) - 1

(***************************************************************************)
(* The second version of the program (second half of the file): Puzzle      *)
(* without the sentinel ring, max_distance with bounds checks.              *)
(***************************************************************************)
\* Puzzle::clear, second version
clear_v2(p) == [p EXCEPT !.grid = fill_n(p.grid, 0, MAX_W * MAX_H, "F")]

\* Puzzle(int w, int h), second version: bool grid[MAX_W*MAX_H]
NewPuzzle_v2(w, h) ==
  clear_v2([w |-> w, h |-> h, start |-> 0, grid |-> [i \in 0 .. MAX_W * MAX_H - 1 |-> "U"]])

\* g.grid[p2]
At_v2(g, pos) == Flag(g.grid[pos])

\* int ds[] = {-1,1, -MAX_W,MAX_W}
ds == << -1, 1, -MAX_W, MAX_W >>

\* Coord bounds[] = {row-1, row+g.w, (-1)*MAX_W + col, g.h*MAX_W + col}
bounds(g, pos) ==
  << row(pos) * MAX_W - 1, row(pos) * MAX_W + g.w, (-1) * MAX_W + col(pos), g.h * MAX_W + col(pos) >>

\* the inner while (true) loop of the second version
RECURSIVE Slide_v2(_, _, _, _, _, _)
Slide_v2(g, p, i, bnd, dist, s) ==
  LET p2 == p + ds[i] IN
  IF p2 = bnd[i] THEN [s EXCEPT !.p = p]
  ELSE IF At_v2(g, p2) THEN [s EXCEPT !.p = p]
  ELSE Slide_v2(g, p2, i, bnd, dist,
                IF s.pass_dists[p2] > dist + 1
                THEN [s EXCEPT !.pass_dists[p2] = dist + 1, !.max_dist = dist + 1]
                ELSE s)

\* one pass of the for loop of the second version
Direction_v2(g, pos, dist, i, s) ==
  Bind(Slide_v2(g, pos, i, bounds(g, pos), dist, s),
       LAMBDA t : IF t.dists[t.p] > dist + 1
                  THEN [t EXCEPT !.dists[t.p] = dist + 1, !.queue = Append(t.queue, t.p)]
                  ELSE t)

RECURSIVE Directions_v2(_, _, _, _, _)
Directions_v2(g, pos, dist, i, s) ==
  IF i > 4 THEN s
  ELSE Bind(Direction_v2(g, pos, dist, i, s),
            LAMBDA t : Directions_v2(g, pos, dist, i + 1, t))

\* the while (queue_start < queue_end) loop of the second version
RECURSIVE Bfs_v2(_, _)
Bfs_v2(g, s) ==
  IF s.queue_start < Len(s.queue)
  THEN LET pos == s.queue[s.queue_start + 1]
           dist == s.dists[pos]
       IN Bind(Directions_v2(g, pos, dist, 1, [s EXCEPT !.queue_start = s.queue_start + 1]),
               LAMBDA t : Bfs_v2(g, t))
  ELSE s

\* int max_distance(Puzzle const& g), second version
max_distance_v2(g, bufs) ==
  Bind([queue |-> << g.start >>, queue_start |-> 0, max_dist |-> 0, p |-> 0,
        dists |-> [fill_n(bufs.dists, 0, MAX_W * MAX_H, UNREACHABLE) EXCEPT ![g.start] = 0],
        pass_dists |-> [fill_n(bufs.pass_dists, 0, MAX_W * MAX_H, UNREACHABLE)
                          EXCEPT ![g.start] = 0]],
       LAMBDA s0 :
         Bind(Bfs_v2(g, s0),
              LAMBDA s : [ret |-> s.max_dist, dists |-> s.dists, pass_dists |-> s.pass_dists]))

(***************************************************************************)
(* Greedy puzzle maker: for_single_changes and the callback greedy_optimize *)
(* passes to it.  st holds what the callback captures by reference (best,   *)
(* best_score, budget), the score it computed last, and the two global      *)
(* buffers.  greedy_optimize fixes accept_same_score = false, USE_SWAPS =    *)
(* false and REACHABLE_ONLY = true, so the branches they guard are the ones *)
(* modelled as taken or not taken here.                                     *)
(***************************************************************************)
\* const int BUDGET = accept_same_score ? 10 : 1
BUDGET == 1

\* the first loop of for_single_changes: the values of puzzle_new handed to fun,
\* in order (each obstacle, moved to each reachable empty cell but the start)
ObstacleMoves(puzzle, reachable) ==
  LET IsObstacleCell(c) == At(puzzle, c)
      IsAlt(c) == reachable[c] # UNREACHABLE /\ ~At(puzzle, c) /\ c # puzzle.start
  IN Bind(Cells(puzzle), LAMBDA cs :
     Bind(SelectSeq(cs, IsObstacleCell), LAMBDA obstacles :
     Bind(SelectSeq(cs, IsAlt), LAMBDA alts :
       [n \in 1 .. Len(obstacles) * Len(alts) |->
          SetAt(SetAt(puzzle, obstacles[((n - 1) \div Len(alts)) + 1], FALSE),
                alts[((n - 1) % Len(alts)) + 1], TRUE)])))

\* StartMoves, moving the start to every other cell, obstacle or not
StartMoves_anycell(puzzle) ==
  LET IsAlt(c) == c # puzzle.start IN
  Bind(SelectSeq(Cells(puzzle), IsAlt), LAMBDA alts :
    [n \in 1 .. Len(alts) |-> [puzzle EXCEPT !.start = alts[n]]])

\* the second loop: the start moved to each empty cell but the start itself
StartMoves(puzzle) ==
  LET IsAlt(c) == ~At(puzzle, c) /\ c # puzzle.start IN
  Bind(SelectSeq(Cells(puzzle), IsAlt), LAMBDA alts :
    [n \in 1 .. Len(alts) |-> [puzzle EXCEPT !.start = alts[n]]])

\* fun, leaving budget as it is when it finds a better puzzle
fun_noreset(st, p) ==
  Bind(max_distance(p, [dists |-> st.dists, pass_dists |-> st.pass_dists]), LAMBDA r :
    LET t == [st EXCEPT !.score = r.ret, !.dists = r.dists, !.pass_dists = r.pass_dists]
    IN IF r.ret > st.best_score
       THEN [t EXCEPT !.best = p, !.best_score = r.ret]
       ELSE t)

\* the lambda greedy_optimize passes as fun
fun(st, p) ==
  Bind(max_distance(p, [dists |-> st.dists, pass_dists |-> st.pass_dists]), LAMBDA r :
    LET t == [st EXCEPT !.score = r.ret, !.dists = r.dists, !.pass_dists = r.pass_dists]
    IN IF r.ret > st.best_score
       THEN [t EXCEPT !.best = p, !.best_score = r.ret, !.budget = BUDGET]
       ELSE t)

\* fun called on ps[n], ps[n+1], ... in turn
RECURSIVE CallEach(_, _, _)
CallEach(ps, n, st) ==
  IF n > Len(ps) THEN st
  ELSE Bind(fun(st, ps[n]), LAMBDA t : CallEach(ps, n + 1, t))

\* for_single_changes(puzzle, false, true, fun): st after the last call of fun
for_single_changes(puzzle, st) ==
  Bind(max_distance(puzzle, [dists |-> st.dists, pass_dists |-> st.pass_dists]), LAMBDA r :
  Bind(ObstacleMoves(puzzle, r.pass_dists) \o StartMoves(puzzle), LAMBDA ps :
    CallEach(ps, 1, [st EXCEPT !.dists = r.dists, !.pass_dists = r.pass_dists])))

(***************************************************************************)
(* Exhaustive search: SkipStartIterator, next_puzzle, first_puzzle          *)
(***************************************************************************)
\* SkipStartIterator(p): the position after construction
SkipBegin(p) ==
  LET it == IterBegin(p) IN IF it = p.start THEN IterNext(it, p.w) ELSE it

\* SkipNext, not stepping over the start cell
SkipNext_plain(p, it) == IterNext(it, p.w)

\* SkipStartIterator::operator++
SkipNext(p, it) ==
  LET n == IterNext(it, p.w) IN IF n = p.start THEN IterNext(n, p.w) ELSE n

\* next_puzzle, first loop: the first obstacle from it on, or end
RECURSIVE FindObstacle(_, _)
FindObstacle(p, it) ==
  IF it = IterEnd(p) THEN it
  ELSE IF At(p, it) THEN it
  ELSE FindObstacle(p, SkipNext(p, it))

\* next_puzzle, second loop: the first clear cell from it on (or end), and the
\* number of obstacles stepped over
RECURSIVE FindClear(_, _, _)
FindClear(p, it, n) ==
  IF it = IterEnd(p) THEN [first_clear |-> it, num_obstacles |-> n]
  ELSE IF ~At(p, it) THEN [first_clear |-> it, num_obstacles |-> n]
  ELSE FindClear(p, SkipNext(p, it), n + 1)

\* MoveOver, each pass setting *it and leaving *obstacle as it is
RECURSIVE MoveOver_noclear(_, _, _, _)
MoveOver_noclear(p, obstacle, it, i) ==
  IF i <= 0 THEN [p |-> p, obstacle |-> obstacle]
  ELSE MoveOver_noclear(SetAt(p, it, TRUE),
                        SkipNext(p, obstacle), SkipNext(p, it), i - 1)

\* next_puzzle, the for loop: i passes left, each clearing *obstacle and setting *it
RECURSIVE MoveOver(_, _, _, _)
MoveOver(p, obstacle, it, i) ==
  IF i <= 0 THEN [p |-> p, obstacle |-> obstacle]
  ELSE MoveOver(SetAt(SetAt(p, obstacle, FALSE), it, TRUE),
                SkipNext(p, obstacle), SkipNext(p, it), i - 1)

\* next_puzzle, the for loop starting at the block instead of the first cell
next_puzzle_inplace(p) ==
  LET obstacle == FindObstacle(p, SkipBegin(p)) IN
  IF obstacle = IterEnd(p) THEN [ok |-> FALSE, p |-> p]
  ELSE LET f == FindClear(p, obstacle, 0) IN
       IF f.first_clear = IterEnd(p) THEN [ok |-> FALSE, p |-> p]
       ELSE LET m == MoveOver(p, obstacle, obstacle, f.num_obstacles - 1)
            IN [ok |-> TRUE,
                p |-> SetAt(SetAt(m.p, m.obstacle, FALSE), f.first_clear, TRUE)]

\* bool next_puzzle(Puzzle& p): [ok |-> the value returned, p |-> p at return]
next_puzzle(p) ==
  LET obstacle == FindObstacle(p, SkipBegin(p)) IN
  IF obstacle = IterEnd(p) THEN [ok |-> FALSE, p |-> p]
  ELSE LET f == FindClear(p, obstacle, 0) IN
       IF f.first_clear = IterEnd(p) THEN [ok |-> FALSE, p |-> p]
       ELSE LET m == MoveOver(p, obstacle, SkipBegin(p), f.num_obstacles - 1)
            IN [ok |-> TRUE,
                p |-> SetAt(SetAt(m.p, m.obstacle, FALSE), f.first_clear, TRUE)]

\* first_puzzle, the while loop
RECURSIVE PlaceFirst(_, _, _)
PlaceFirst(p, it, obstacles) ==
  IF obstacles > 0 /\ it # IterEnd(p)
  THEN PlaceFirst(SetAt(p, it, TRUE), SkipNext(p, it), obstacles - 1)
  ELSE p

\* first_puzzle, leaving the obstacles of the previous enumeration in place
first_puzzle_noclear(p, obstacles) == PlaceFirst(p, SkipBegin(p), obstacles)

\* void first_puzzle(Puzzle& p, int obstacles)
first_puzzle(p, obstacles) ==
  LET q == clear(p) IN PlaceFirst(q, SkipBegin(q), obstacles)

\* SkipStart, applying the transposition test to grids that are not square
SkipStart_anyshape(start_coord, w, h) ==
  \/ col(start_coord) * 2 > w
  \/ row(start_coord) * 2 > h
  \/ row(start_coord) > col(start_coord)

\* the start cells brute_force_search skips
SkipStart(start_coord, w, h) ==
  \/ col(start_coord) * 2 > w
  \/ row(start_coord) * 2 > h
  \/ (w = h /\ row(start_coord) > col(start_coord))

\* the cells of p that hold an obstacle
Obstacles(p) == {c \in CellSet(p) : At(p, c)}

(***************************************************************************)
(* Simulated annealing: remove_obstacle, random_change, make_random_puzzle. *)
(* A draw of the random generator is a free choice, so a function that      *)
(* draws is modelled by the set of values it can return.                    *)
(***************************************************************************)
\* Puzzle::random_coord: Coord(random_range(w), random_range(h))
random_coord(p) == {Coord(x, y) : x \in 0 .. p.w - 1, y \in 0 .. p.h - 1}

\* IsEmptyCoord, not comparing the cell with the start
IsEmptyCoord_anystart(p, c) == ~At(p, c)

\* random_empty_coord, the test that ends its loop: !(*this)[coord] && coord != start
IsEmptyCoord(p, c) == ~At(p, c) /\ c # p.start

\* Puzzle::random_empty_coord: the draws that end its loop (it does not return
\* when there is none)
random_empty_coord(p) == {c \in random_coord(p) : IsEmptyCoord(p, c)}

\* void remove_obstacle(Puzzle& puzzle, int i)
remove_obstacle(p, i) ==
  LET IsObstacleCell(c) == At(p, c)
      obs == SelectSeq(Cells(p), IsObstacleCell)
  IN IF i < Len(obs) THEN SetAt(p, obs[i + 1], FALSE) ELSE p

\* random_change_of, placing an obstacle without removing one first
random_change_of_noremove(p, num_obstacles, to_remove) ==
  IF to_remove = num_obstacles
  THEN {[p EXCEPT !.start = c] : c \in random_empty_coord(p)}
  ELSE {SetAt(p, c, TRUE) : c \in random_empty_coord(p)}

\* random_change, for the draw to_remove
random_change_of(p, num_obstacles, to_remove) ==
  IF to_remove = num_obstacles
  THEN {[p EXCEPT !.start = c] : c \in random_empty_coord(p)}
  ELSE LET q == remove_obstacle(p, to_remove)
       IN {SetAt(q, c, TRUE) : c \in random_empty_coord(q)}

\* void random_change(Puzzle& puzzle, int num_obstacles): the puzzles it can leave
random_change(p, num_obstacles) ==
  UNION {random_change_of(p, num_obstacles, t) : t \in 0 .. num_obstacles}

\* make_random_puzzle, the for loop: n more obstacles on each puzzle of P
RECURSIVE PlaceRandom(_, _)
PlaceRandom(P, n) ==
  IF n = 0 THEN P
  ELSE PlaceRandom(UNION {{SetAt(p, c, TRUE) : c \in random_empty_coord(p)} : p \in P}, n - 1)

\* Puzzle make_random_puzzle(int w, int h, int obstacles): the puzzles it can return
make_random_puzzle(w, h, obstacles) ==
  PlaceRandom({[q EXCEPT !.start = c] : q \in {NewPuzzle(w, h)}, c \in random_coord(NewPuzzle(w, h))},
              obstacles)

\* bool accept = random_double() < exp(temp * (score - prev_score)), for temp > 0
\* and random_double() in [0, 1): the exponential is at least 1 when the score
\* did not fall, and strictly between 0 and 1 when it fell
Accepts(new_score, prev_score) ==
  IF new_score >= prev_score THEN {TRUE} ELSE {TRUE, FALSE}

(***************************************************************************)
(* Relative position based puzzle: RelativePuzzle and its enumeration.  The *)
(* arrays horizontal_pos, vertical_pos and permutation are functions on the *)
(* indices the code uses, 0 .. num_objects and 0 .. num_objects - 1.        *)
(***************************************************************************)
RelativePosition == {"SAME", "NEXT", "SKIP"}

\* to_coords: what one relative position adds to x
Advance(pos) == CASE pos = "SAME" -> 0 [] pos = "NEXT" -> 1 [] pos = "SKIP" -> 4

\* to_coords, the value of x after the pass for index i
RECURSIVE RunningCoord(_, _)
RunningCoord(rel_pos, i) ==
  IF i < 0 THEN -1 ELSE RunningCoord(rel_pos, i - 1) + Advance(rel_pos[i])

\* static void to_coords(rel_pos, n, coords, w): coords[0 .. n] and w = coords[n]
to_coords(rel_pos, n) ==
  LET coords == [i \in 0 .. n |-> RunningCoord(rel_pos, i)]
  IN [coords |-> coords, w |-> coords[n]]

\* to_puzzle, the for loop from object i on
RECURSIVE PlaceObjects(_, _, _, _, _)
PlaceObjects(r, x_coords, y_coords, i, p) ==
  IF i >= r.num_objects THEN p
  ELSE LET pos == Coord(x_coords[i], y_coords[r.permutation[i]])
       IN PlaceObjects(r, x_coords, y_coords, i + 1,
                       IF i = r.start_index THEN [p EXCEPT !.start = pos] ELSE SetAt(p, pos, TRUE))

\* bool RelativePuzzle::to_puzzle(Puzzle& puzzle) const:
\* [ok |-> the value returned, p |-> puzzle at return]
to_puzzle(r, p) ==
  LET xs == to_coords(r.horizontal_pos, r.num_objects)
      ys == to_coords(r.vertical_pos, r.num_objects)
      q == [p EXCEPT !.w = xs.w, !.h = ys.w]
  IN IF q.w = 0 \/ q.w > MAX_W \/ xs.coords[0] = -1 THEN [ok |-> FALSE, p |-> q]
     ELSE IF q.h = 0 \/ q.h > MAX_H \/ ys.coords[0] = -1 THEN [ok |-> FALSE, p |-> q]
     ELSE [ok |-> TRUE, p |-> PlaceObjects(r, xs.coords, ys.coords, 0, clear(q))]

\* RelativePuzzle first_relative_puzzle(int obstacles)
first_relative_puzzle(obstacles) ==
  LET n == obstacles + 1
      pos == [i \in 0 .. n |-> IF i = 0 \/ i = n THEN "NEXT" ELSE "SAME"]
  IN [num_objects |-> n, start_index |-> 0, horizontal_pos |-> pos, vertical_pos |-> pos,
      permutation |-> [i \in 0 .. n - 1 |-> i]]

\* next_relative_pos, wrapping to SAME at a wall too
next_relative_pos_nowall(pos, at_wall) ==
  IF pos = "SAME" THEN [ok |-> TRUE, p |-> "NEXT"]
  ELSE IF pos = "NEXT" THEN [ok |-> TRUE, p |-> "SKIP"]
  ELSE [ok |-> FALSE, p |-> "SAME"]

\* bool next_relative_pos(RelativePosition& p, bool at_wall)
next_relative_pos(pos, at_wall) ==
  IF pos = "SAME" THEN [ok |-> TRUE, p |-> "NEXT"]
  ELSE IF pos = "NEXT" THEN [ok |-> TRUE, p |-> "SKIP"]
  ELSE [ok |-> FALSE, p |-> IF at_wall THEN "NEXT" ELSE "SAME"]

\* std::reverse(a + first, a + last)
reverse(a, first, last) ==
  [k \in DOMAIN a |-> IF first <= k /\ k < last THEN a[first + last - 1 - k] ELSE a[k]]

\* next_permutation, leaving the tail behind the swapped entry as it is
next_permutation_noreverse(a, n) ==
  IF n < 2 THEN [ok |-> FALSE, a |-> a]
  ELSE LET asc == {i \in 0 .. n - 2 : a[i] < a[i + 1]} IN
       IF asc = {} THEN [ok |-> FALSE, a |-> reverse(a, 0, n)]
       ELSE LET i == CHOOSE x \in asc : \A y \in asc : y <= x
                above == {x \in i + 1 .. n - 1 : a[i] < a[x]}
                j == CHOOSE x \in above : \A y \in above : y <= x
            IN [ok |-> TRUE, a |-> [a EXCEPT ![i] = a[j], ![j] = a[i]]]

\* std::next_permutation(a, a + n): [ok |-> the value returned, a |-> the array after]
next_permutation(a, n) ==
  IF n < 2 THEN [ok |-> FALSE, a |-> a]
  ELSE LET asc == {i \in 0 .. n - 2 : a[i] < a[i + 1]} IN
       IF asc = {} THEN [ok |-> FALSE, a |-> reverse(a, 0, n)]
       ELSE LET i == CHOOSE x \in asc : \A y \in asc : y <= x
                above == {x \in i + 1 .. n - 1 : a[i] < a[x]}
                j == CHOOSE x \in above : \A y \in above : y <= x
                swapped == [a EXCEPT ![i] = a[j], ![j] = a[i]]
            IN [ok |-> TRUE, a |-> reverse(swapped, i + 1, n)]

\* next_relative_puzzle, the last for loop from index i on
RECURSIVE NextGaps(_, _)
NextGaps(r, i) ==
  IF i >= r.num_objects + 1 THEN [ok |-> FALSE, p |-> r]
  ELSE LET at_wall == i = 0 \/ i = r.num_objects
           hp == next_relative_pos(r.horizontal_pos[i], at_wall)
           r1 == [r EXCEPT !.horizontal_pos[i] = hp.p]
       IN IF hp.ok THEN [ok |-> TRUE, p |-> r1]
          ELSE LET vp == next_relative_pos(r1.vertical_pos[i], at_wall)
                   r2 == [r1 EXCEPT !.vertical_pos[i] = vp.p]
               IN IF vp.ok THEN [ok |-> TRUE, p |-> r2] ELSE NextGaps(r2, i + 1)

\* bool next_relative_puzzle(RelativePuzzle& p): [ok |-> the value returned, p |-> p after]
next_relative_puzzle(r) ==
  LET r1 == [r EXCEPT !.start_index = r.start_index + 1] IN
  IF r1.start_index * 2 < r1.num_objects THEN [ok |-> TRUE, p |-> r1]
  ELSE LET np == next_permutation(r1.permutation, r1.num_objects)
           r2 == [r1 EXCEPT !.start_index = 0, !.permutation = np.a]
       IN IF np.ok /\ r2.permutation[0] * 2 <= r2.num_objects THEN [ok |-> TRUE, p |-> r2]
          ELSE NextGaps([r2 EXCEPT !.permutation = [i \in 0 .. r2.num_objects - 1 |-> i]], 0)

(***************************************************************************)
(* Bounds of the model                                                      *)
(***************************************************************************)
MaxW == 4
MaxH == 3
MaxObst == 2
\* SpecCalls: the grids of the successive solver calls
CallW == 2
CallH == 3
CallObst == 1
\* SpecGreedy: the initial grids
GreedyW == 3
GreedyH == 3
GreedyObst == 2
\* SpecCompare: the parameters of the two searches; the source has RUNS = 1000
CmpW == 2
CmpH == 2
CmpObst == 2
RUNS == 2
\* SpecAnneal: the parameters of the search; the source has RUNS = 10, about 3070
\* temperatures in a run and STEP_PER_TEMPERATURE = 100 * obstacles
AnnealW == 2
AnnealH == 2
AnnealObst == 2
AnnealRuns == 2
Temperatures == 1
StepScale == 1
\* SpecRelEnum, SpecRel: the largest number of obstacles of a relative search
RelObst == 2
\* SpecEmpty: the grids random_empty_coord is called on
EmptyW == 2
EmptyH == 2

\* SpecVersions: at most VerObst obstacles on every size up to (MAX_W-1) x MAX_H,
\* every obstacle set on the sizes of at most DenseCells cells
VerObst == 1
DenseCells == 9

\* SpecSingle: the initial grids of greedy_optimize, followed call by call
SingleW == 3
SingleH == 2
SingleObst == 2

\* a puzzle built as the callers build one: Puzzle(w,h), obstacle flags set, start set
RECURSIVE SetAll(_, _)
SetAll(p, S) ==
  IF S = {} THEN p
  ELSE LET c == CHOOSE c \in S : TRUE IN SetAll(SetAt(p, c, TRUE), S \ {c})

MakePuzzle(w, h, obst, start) == [SetAll(NewPuzzle(w, h), obst) EXCEPT !.start = start]

\* the k-element subsets of a set of integers
RECURSIVE KSubsets(_, _)
KSubsets(S, k) ==
  IF k = 0 THEN {{}}
  ELSE UNION {{T \cup {x} : T \in KSubsets({y \in S : y > x}, k - 1)} : x \in S}

GridCells(w, h) == {Coord(x, y) : x \in 0 .. w - 1, y \in 0 .. h - 1}

\* every w-by-h puzzle with exactly k obstacles and a start that is not one
Layouts(w, h, k) ==
  UNION {{MakePuzzle(w, h, o, s) : s \in GridCells(w, h) \ o} : o \in KSubsets(GridCells(w, h), k)}

(***************************************************************************)
(* State                                                                    *)
(***************************************************************************)
VARIABLES
  pc,          \* where the running driver stands
  puzzle,      \* the puzzle the driver holds
  dists,       \* int dists[MAX_W*MAX_H], global
  pass_dists,  \* int pass_dists[MAX_W*MAX_H], global
  score,       \* the value the last max_distance call returned
  best,        \* a search's best puzzle
  best_score,  \* and its score
  args,        \* the arguments of the running search
  start_coord, \* brute_force_search: the position of its for loop
  budget,      \* greedy_optimize: budget
  caller,      \* greedy_optimize_from_random: its i, best and best_score
  brute,       \* the score of the grid brute_force_search returned, -1 before
  visited,     \* history: the obstacle sets an enumeration has produced, in order
  rp,          \* relative_puzzle_search: its RelativePuzzle rp
  decoded,     \* the value the last rp.to_puzzle(puzzle) returned
  coord,       \* random_empty_coord: its coord
  walk,        \* simulated_annealing_search: its loop counters
  scored,      \* history: the scores a search has computed so far
  count,       \* relative_puzzle_search: count, the encoding points tried
  v2,          \* what the second version's max_distance returned and left in its buffers
  touched,     \* history: the distance entries the last max_distance call indexed in its loop
  fsc          \* for_single_changes: its puzzle (the caller's cur), reachable, and how many calls of fun it made

vars == << pc, puzzle, dists, pass_dists, score, best, best_score, args,
           start_coord, budget, caller, brute, visited, rp, decoded, coord, walk, scored, count,
           v2, touched, fsc >>

NoCaller == [i |-> 0, best |-> NewPuzzle(1, 1), best_score |-> 0]

Bufs == [dists |-> dists, pass_dists |-> pass_dists]

NoArgs == [w |-> 0, h |-> 0, obstacles |-> 0]

\* a RelativePuzzle is not yet constructed; no annealing loop is running
NoRp == [num_objects |-> 0, horizontal_pos |-> << >>, vertical_pos |-> << >>,
         permutation |-> << >>, start_index |-> 0]
NoWalk == [i |-> 0, step |-> 0]

\* for_single_changes is not running
NoFsc == [puzzle |-> NewPuzzle(1, 1), reachable |-> << >>, n |-> 0]

\* the second version has not run
NoV2 == [ret |-> -1, dists |-> << >>, pass_dists |-> << >>]

\* int score = max_distance(p), from buffers in their initial state
Score(p) == max_distance(p, ZeroBufs).ret

(***************************************************************************)
(* SpecSolve: one solver call in a fresh process, on any puzzle             *)
(***************************************************************************)
InitSolve ==
  /\ pc = "call"
  /\ \E w \in 1 .. MaxW, h \in 1 .. MaxH, k \in 0 .. MaxObst :
       \E o \in KSubsets(GridCells(w, h), k) :
         \E s \in GridCells(w, h) \ o : puzzle = MakePuzzle(w, h, o, s)
  /\ dists = ZeroBufs.dists
  /\ pass_dists = ZeroBufs.pass_dists
  /\ score = -1
  /\ best = NewPuzzle(1, 1)
  /\ best_score = -1
  /\ args = NoArgs
  /\ start_coord = 0
  /\ budget = 0
  /\ caller = NoCaller
  /\ brute = -1
  /\ rp = NoRp
  /\ decoded = TRUE
  /\ coord = 0
  /\ walk = NoWalk
  /\ scored = {}
  /\ count = 0
  /\ v2 = NoV2
  /\ touched = {}
  /\ fsc = NoFsc
  /\ visited = << >>

Solve ==
  /\ pc = "call"
  /\ \E r \in {max_distance(puzzle, Bufs)} :
       /\ dists' = r.dists
       /\ pass_dists' = r.pass_dists
       /\ score' = r.ret
  /\ pc' = "return"
  /\ UNCHANGED << puzzle, best, best_score, args, start_coord, budget, caller, brute, visited,
                  rp, decoded, coord, walk, scored, count,
                  v2, touched, fsc >>

NextSolve == Solve

SpecSolve == InitSolve /\ [][NextSolve]_vars

(***************************************************************************)
(* SpecCalls: one process calling the solver again and again, each time on  *)
(* a grid of its choice; the buffers keep what the calls leave in them      *)
(***************************************************************************)
InitCalls ==
  /\ pc = "call"
  /\ \E w \in 1 .. CallW, h \in 1 .. CallH, k \in 0 .. CallObst :
       \E o \in KSubsets(GridCells(w, h), k) :
         \E s \in GridCells(w, h) \ o : puzzle = MakePuzzle(w, h, o, s)
  /\ dists = ZeroBufs.dists
  /\ pass_dists = ZeroBufs.pass_dists
  /\ score = -1
  /\ best = NewPuzzle(1, 1)
  /\ best_score = -1
  /\ args = NoArgs
  /\ start_coord = 0
  /\ budget = 0
  /\ caller = NoCaller
  /\ brute = -1
  /\ rp = NoRp
  /\ decoded = TRUE
  /\ coord = 0
  /\ walk = NoWalk
  /\ scored = {}
  /\ count = 0
  /\ v2 = NoV2
  /\ touched = {}
  /\ fsc = NoFsc
  /\ visited = << >>

\* the caller takes another grid and calls the solver on it
Again ==
  /\ pc = "return"
  /\ \E w \in 1 .. CallW, h \in 1 .. CallH, k \in 0 .. CallObst :
       \E o \in KSubsets(GridCells(w, h), k) :
         \E s \in GridCells(w, h) \ o : puzzle' = MakePuzzle(w, h, o, s)
  /\ pc' = "call"
  /\ UNCHANGED << dists, pass_dists, score, best, best_score, args, start_coord, budget,
                  caller, brute, visited,
                  rp, decoded, coord, walk, scored, count,
                  v2, touched, fsc >>

NextCalls == Solve \/ Again

SpecCalls == InitCalls /\ [][NextCalls]_vars

(***************************************************************************)
(* SpecGreedy: greedy_optimize(initial) on any valid initial grid           *)
(***************************************************************************)
InitGreedy ==
  /\ pc = "g_call"
  /\ \E w \in 1 .. GreedyW, h \in 1 .. GreedyH, k \in 0 .. GreedyObst :
       \E o \in KSubsets(GridCells(w, h), k) :
         \E s \in GridCells(w, h) \ o : puzzle = MakePuzzle(w, h, o, s)
  /\ dists = ZeroBufs.dists
  /\ pass_dists = ZeroBufs.pass_dists
  /\ score = -1
  /\ best = NewPuzzle(1, 1)
  /\ best_score = -1
  /\ args = NoArgs
  /\ start_coord = 0
  /\ budget = 0
  /\ caller = NoCaller
  /\ brute = -1
  /\ rp = NoRp
  /\ decoded = TRUE
  /\ coord = 0
  /\ walk = NoWalk
  /\ scored = {}
  /\ count = 0
  /\ v2 = NoV2
  /\ touched = {}
  /\ fsc = NoFsc
  /\ visited = << >>

\* Puzzle best = initial; int best_score = max_distance(best); int budget = BUDGET
GreedyEnter ==
  /\ pc = "g_call"
  /\ \E r \in {max_distance(puzzle, Bufs)} :
       /\ dists' = r.dists
       /\ pass_dists' = r.pass_dists
       /\ score' = r.ret
       /\ best_score' = r.ret
  /\ best' = puzzle
  /\ budget' = BUDGET
  /\ visited' = << >>
  /\ pc' = "g_while"
  /\ UNCHANGED << puzzle, args, start_coord, caller, brute,
                  rp, decoded, coord, walk, scored, count,
                  v2, touched, fsc >>

\* one pass of while (budget > 0): budget--, cur = best, for_single_changes(cur, ...)
GreedyPass ==
  /\ pc = "g_while"
  /\ budget > 0
  /\ \E st \in {for_single_changes(best,
                    [best |-> best, best_score |-> best_score, budget |-> budget - 1,
                     score |-> score, dists |-> dists, pass_dists |-> pass_dists])} :
       /\ best' = st.best
       /\ best_score' = st.best_score
       /\ budget' = st.budget
       /\ score' = st.score
       /\ dists' = st.dists
       /\ pass_dists' = st.pass_dists
  /\ visited' = Append(visited, Obstacles(best))
  /\ UNCHANGED << pc, puzzle, args, start_coord, caller, brute,
                  rp, decoded, coord, walk, scored, count,
                  v2, touched, fsc >>

\* the loop is over: return best
GreedyReturn ==
  /\ pc = "g_while"
  /\ budget <= 0
  /\ puzzle' = best
  /\ pc' = "g_ret"
  /\ UNCHANGED << dists, pass_dists, score, best, best_score, args, start_coord, budget,
                  caller, brute, visited,
                  rp, decoded, coord, walk, scored, count,
                  v2, touched, fsc >>

NextGreedy == GreedyEnter \/ GreedyPass \/ GreedyReturn

\* the program is sequential and runs on: a step that can be taken is taken
SpecGreedy == InitGreedy /\ [][NextGreedy]_vars /\ WF_vars(NextGreedy)

(***************************************************************************)
(* SpecSingle: greedy_optimize(initial) followed one call of fun at a time. *)
(* puzzle holds initial throughout.  fsc.puzzle is the parameter puzzle of  *)
(* for_single_changes, bound to the caller's cur; fsc.reachable is its      *)
(* local array; fsc.n counts the calls of fun made so far, which fixes the  *)
(* position of its loops.                                                   *)
(***************************************************************************)
\* the values of puzzle_new for_single_changes hands to fun, in order
Candidates(f) == ObstacleMoves(f.puzzle, f.reachable) \o StartMoves(f.puzzle)

InitSingle ==
  /\ pc = "s_call"
  /\ \E w \in 1 .. SingleW, h \in 1 .. SingleH, k \in 0 .. SingleObst :
       \E o \in KSubsets(GridCells(w, h), k) :
         \E s \in GridCells(w, h) \ o : puzzle = MakePuzzle(w, h, o, s)
  /\ dists = ZeroBufs.dists
  /\ pass_dists = ZeroBufs.pass_dists
  /\ score = -1
  /\ best = NewPuzzle(1, 1)
  /\ best_score = -1
  /\ args = NoArgs
  /\ start_coord = 0
  /\ budget = 0
  /\ caller = NoCaller
  /\ brute = -1
  /\ rp = NoRp
  /\ decoded = TRUE
  /\ coord = 0
  /\ walk = NoWalk
  /\ scored = {}
  /\ count = 0
  /\ v2 = NoV2
  /\ touched = {}
  /\ fsc = NoFsc
  /\ visited = << >>

\* Puzzle best = initial; int best_score = max_distance(best); int budget = BUDGET
SingleEnter ==
  /\ pc = "s_call"
  /\ \E r \in {max_distance(puzzle, Bufs)} :
       /\ dists' = r.dists
       /\ pass_dists' = r.pass_dists
       /\ score' = r.ret
       /\ best_score' = r.ret
  /\ best' = puzzle
  /\ budget' = BUDGET
  /\ pc' = "s_while"
  /\ UNCHANGED << puzzle, args, start_coord, caller, brute, visited,
                  rp, decoded, coord, walk, scored, count, v2, touched, fsc >>

\* while (budget > 0): budget--; Puzzle cur = best; for_single_changes(cur, ...) up
\* to its first loop: max_distance(puzzle), reachable = pass_dists
SingleWhile ==
  /\ pc = "s_while"
  /\ budget > 0
  /\ budget' = budget - 1
  /\ \E r \in {max_distance(best, Bufs)} :
       /\ dists' = r.dists
       /\ pass_dists' = r.pass_dists
       /\ fsc' = [puzzle |-> best, reachable |-> r.pass_dists, n |-> 0]
  /\ pc' = "s_fun"
  /\ UNCHANGED << puzzle, score, best, best_score, args, start_coord, caller, brute, visited,
                  rp, decoded, coord, walk, scored, count, v2, touched >>

\* the loops of for_single_changes reach their next call of fun
SingleFun ==
  /\ pc = "s_fun"
  /\ \E ps \in {Candidates(fsc)} :
       /\ fsc.n < Len(ps)
       /\ \E st \in {fun([best |-> best, best_score |-> best_score, budget |-> budget,
                          score |-> score, dists |-> dists, pass_dists |-> pass_dists],
                         ps[fsc.n + 1])} :
            /\ best' = st.best
            /\ best_score' = st.best_score
            /\ budget' = st.budget
            /\ score' = st.score
            /\ dists' = st.dists
            /\ pass_dists' = st.pass_dists
  /\ fsc' = [fsc EXCEPT !.n = fsc.n + 1]
  /\ UNCHANGED << pc, puzzle, args, start_coord, caller, brute, visited,
                  rp, decoded, coord, walk, scored, count, v2, touched >>

\* the loops of for_single_changes end: back to the test of the while loop
SingleDone ==
  /\ pc = "s_fun"
  /\ fsc.n >= Len(Candidates(fsc))
  /\ pc' = "s_while"
  /\ UNCHANGED << puzzle, dists, pass_dists, score, best, best_score, args, start_coord, budget,
                  caller, brute, visited, rp, decoded, coord, walk, scored, count,
                  v2, touched, fsc >>

\* return best
SingleReturn ==
  /\ pc = "s_while"
  /\ budget <= 0
  /\ pc' = "s_ret"
  /\ UNCHANGED << puzzle, dists, pass_dists, score, best, best_score, args, start_coord, budget,
                  caller, brute, visited, rp, decoded, coord, walk, scored, count,
                  v2, touched, fsc >>

NextSingle == SingleEnter \/ SingleWhile \/ SingleFun \/ SingleDone \/ SingleReturn

SpecSingle == InitSingle /\ [][NextSingle]_vars

(***************************************************************************)
(* SpecEnum: first_puzzle, then next_puzzle until it returns false, for a   *)
(* fixed start cell                                                         *)
(***************************************************************************)
\* obstacle counts tried for n free cells: the few and the many
EnumCounts(n) == {k \in 0 .. n : k <= MaxObst \/ k >= n - MaxObst}

InitEnum ==
  /\ pc = "enum"
  /\ \E w \in 1 .. MaxW, h \in 1 .. MaxH :
       \E s \in GridCells(w, h), k \in EnumCounts(w * h - 1) :
         /\ args = [w |-> w, h |-> h, obstacles |-> k]
         /\ puzzle = first_puzzle([NewPuzzle(w, h) EXCEPT !.start = s], k)
  /\ visited = << Obstacles(puzzle) >>
  /\ dists = ZeroBufs.dists
  /\ pass_dists = ZeroBufs.pass_dists
  /\ score = -1
  /\ best = NewPuzzle(1, 1)
  /\ best_score = -1
  /\ start_coord = 0
  /\ budget = 0
  /\ caller = NoCaller
  /\ brute = -1
  /\ rp = NoRp
  /\ decoded = TRUE
  /\ coord = 0
  /\ walk = NoWalk
  /\ scored = {}
  /\ count = 0
  /\ v2 = NoV2
  /\ touched = {}
  /\ fsc = NoFsc

EnumNext ==
  /\ pc = "enum"
  /\ \E r \in {next_puzzle(puzzle)} :
       /\ puzzle' = r.p
       /\ IF r.ok
          THEN /\ visited' = Append(visited, Obstacles(r.p))
               /\ pc' = "enum"
          ELSE /\ visited' = visited
               /\ pc' = "end"
  /\ UNCHANGED << dists, pass_dists, score, best, best_score, args, start_coord, budget, caller, brute,
                  rp, decoded, coord, walk, scored, count,
                  v2, touched, fsc >>

NextEnum == EnumNext

SpecEnum == InitEnum /\ [][NextEnum]_vars

(***************************************************************************)
(* SpecBrute: brute_force_search(w, h, obstacles)                           *)
(***************************************************************************)
\* the state at the head of the for loop, first pass
BruteEntry(w, h, k) ==
  /\ pc = "for"
  /\ args = [w |-> w, h |-> h, obstacles |-> k]
  /\ best = NewPuzzle(w, h)
  /\ best_score = -1
  /\ puzzle = NewPuzzle(w, h)
  /\ start_coord = IterBegin(puzzle)
  /\ dists = ZeroBufs.dists
  /\ pass_dists = ZeroBufs.pass_dists
  /\ score = -1
  /\ budget = 0
  /\ caller = NoCaller
  /\ brute = -1
  /\ rp = NoRp
  /\ decoded = TRUE
  /\ coord = 0
  /\ walk = NoWalk
  /\ scored = {}
  /\ count = 0
  /\ v2 = NoV2
  /\ touched = {}
  /\ fsc = NoFsc
  /\ visited = << >>

InitBrute ==
  \E w \in 1 .. MaxW, h \in 1 .. MaxH, k \in 0 .. MaxObst :
    k <= w * h - 1 /\ BruteEntry(w, h, k)

\* a start cell the symmetry filter skips: continue
BruteSkip ==
  /\ pc = "for"
  /\ start_coord # IterEnd(puzzle)
  /\ SkipStart(start_coord, args.w, args.h)
  /\ start_coord' = IterNext(start_coord, puzzle.w)
  /\ UNCHANGED << pc, puzzle, dists, pass_dists, score, best, best_score, args, budget, caller, brute, visited,
                  rp, decoded, coord, walk, scored, count,
                  v2, touched, fsc >>

\* a retained start cell: puzzle.start = start_coord; first_puzzle(puzzle, obstacles)
BruteFirst ==
  /\ pc = "for"
  /\ start_coord # IterEnd(puzzle)
  /\ ~SkipStart(start_coord, args.w, args.h)
  /\ puzzle' = first_puzzle([puzzle EXCEPT !.start = start_coord], args.obstacles)
  /\ pc' = "while"
  /\ UNCHANGED << dists, pass_dists, score, best, best_score, args, start_coord, budget, caller, brute, visited,
                  rp, decoded, coord, walk, scored, count,
                  v2, touched, fsc >>

\* one pass of the while (true) loop: score the puzzle, keep it if better, step on
BruteWhile ==
  /\ pc = "while"
  /\ \E r \in {max_distance(puzzle, Bufs)}, n \in {next_puzzle(puzzle)} :
        /\ dists' = r.dists
        /\ pass_dists' = r.pass_dists
        /\ score' = r.ret
        /\ IF r.ret > best_score
           THEN best_score' = r.ret /\ best' = puzzle
           ELSE UNCHANGED << best_score, best,
                  v2, touched, fsc >>
        /\ puzzle' = n.p
        /\ IF n.ok
           THEN UNCHANGED << pc, start_coord,
                  v2, touched, fsc >>
           ELSE pc' = "for" /\ start_coord' = IterNext(start_coord, puzzle.w)
  /\ UNCHANGED << args, budget, caller, brute, visited,
                  rp, decoded, coord, walk, scored, count,
                  v2, touched, fsc >>

\* the for loop is over: return best
BruteReturn ==
  /\ pc = "for"
  /\ start_coord = IterEnd(puzzle)
  /\ pc' = "done"
  /\ UNCHANGED << puzzle, dists, pass_dists, score, best, best_score, args, start_coord, budget, caller, brute, visited,
                  rp, decoded, coord, walk, scored, count,
                  v2, touched, fsc >>

NextBrute == BruteSkip \/ BruteFirst \/ BruteWhile \/ BruteReturn

SpecBrute == InitBrute /\ [][NextBrute]_vars

(***************************************************************************)
(* SpecReadme: brute_force_search on the README's grid, 7 wide and 6 high,  *)
(* with 3 obstacles                                                         *)
(***************************************************************************)
ReadmeW == 7
ReadmeH == 6
ReadmeObstacles == 3
ReadmeMoves == 11

InitReadme == BruteEntry(ReadmeW, ReadmeH, ReadmeObstacles)

SpecReadme == InitReadme /\ [][NextBrute]_vars

\* the README's best puzzle with 3 obstacles: start in the top right corner
ReadmePuzzle ==
  MakePuzzle(ReadmeW, ReadmeH, {Coord(5, 0), Coord(0, 2), Coord(4, 5)}, Coord(6, 0))

(***************************************************************************)
(* SpecCompare: a driver as main is, running brute_force_search and then    *)
(* greedy_optimize_from_random with the same w, h and obstacles, and        *)
(* scoring what each returns.  The draws of the random generator are free   *)
(* choices.                                                                 *)
(***************************************************************************)
InitCompare ==
  \E w \in 1 .. CmpW, h \in 1 .. CmpH, k \in 0 .. CmpObst :
    k <= w * h - 1 /\ BruteEntry(w, h, k)

\* int score = max_distance(p) on the grid brute_force_search returned, then the
\* entry of greedy_optimize_from_random: Puzzle best(w,h); int best_score = 0
CompareStart ==
  /\ pc = "done"
  /\ \E r \in {max_distance(best, Bufs)} :
       /\ dists' = r.dists
       /\ pass_dists' = r.pass_dists
       /\ score' = r.ret
       /\ brute' = r.ret
  /\ caller' = [i |-> 0, best |-> NewPuzzle(args.w, args.h), best_score |-> 0]
  /\ pc' = "runs"
  /\ UNCHANGED << puzzle, best, best_score, args, start_coord, budget, visited,
                  rp, decoded, coord, walk, scored, count,
                  v2, touched, fsc >>

\* one run begins: Puzzle puzzle(w,h); obstacles draws of random_coord(), each set
\* to true; puzzle.start = puzzle.random_empty_coord(), which returns an empty
\* cell other than the start Puzzle(w,h) set, and does not return if there is none
RandomInit ==
  /\ pc = "runs"
  /\ caller.i < RUNS
  /\ \E draws \in [1 .. args.obstacles -> GridCells(args.w, args.h)] :
       \E q \in {SetAll(NewPuzzle(args.w, args.h), {draws[j] : j \in 1 .. args.obstacles})} :
         \E s \in {c \in GridCells(args.w, args.h) : ~At(q, c) /\ c # q.start} :
           puzzle' = [q EXCEPT !.start = s]
  /\ pc' = "g_call"
  /\ UNCHANGED << dists, pass_dists, score, best, best_score, args, start_coord, budget,
                  caller, brute, visited,
                  rp, decoded, coord, walk, scored, count,
                  v2, touched, fsc >>

\* greedy_optimize has returned into puzzle: score it, keep it if better, ++i
RunScore ==
  /\ pc = "g_ret"
  /\ \E r \in {max_distance(puzzle, Bufs)} :
       /\ dists' = r.dists
       /\ pass_dists' = r.pass_dists
       /\ score' = r.ret
       /\ caller' = IF r.ret > caller.best_score
                    THEN [i |-> caller.i + 1, best |-> puzzle, best_score |-> r.ret]
                    ELSE [caller EXCEPT !.i = caller.i + 1]
  /\ visited' = << >>
  /\ pc' = "runs"
  /\ UNCHANGED << puzzle, best, best_score, args, start_coord, budget, brute,
                  rp, decoded, coord, walk, scored, count,
                  v2, touched, fsc >>

\* the runs are over: return best, and the driver scores it
RandomReturn ==
  /\ pc = "runs"
  /\ caller.i >= RUNS
  /\ puzzle' = caller.best
  /\ \E r \in {max_distance(caller.best, Bufs)} :
       /\ dists' = r.dists
       /\ pass_dists' = r.pass_dists
       /\ score' = r.ret
  /\ pc' = "r_done"
  /\ UNCHANGED << best, best_score, args, start_coord, budget, caller, brute, visited,
                  rp, decoded, coord, walk, scored, count,
                  v2, touched, fsc >>

NextCompare ==
  \/ BruteSkip \/ BruteFirst \/ BruteWhile \/ BruteReturn
  \/ CompareStart \/ RandomInit \/ GreedyEnter \/ GreedyPass \/ GreedyReturn
  \/ RunScore \/ RandomReturn

SpecCompare == InitCompare /\ [][NextCompare]_vars

(***************************************************************************)
(* SpecAnneal: simulated_annealing_search(w, h, obstacles).  The loop over   *)
(* the temperatures and the loop over the steps at one temperature are one  *)
(* counter, walk.step: the temperature enters the step only through the     *)
(* acceptance test, and what that test can answer does not depend on it.    *)
(***************************************************************************)
\* const int STEP_PER_TEMPERATURE = 100 * obstacles
STEP_PER_TEMPERATURE(obstacles) == StepScale * obstacles

InitAnneal ==
  /\ pc = "a_for"
  /\ \E w \in 1 .. AnnealW, h \in 1 .. AnnealH, k \in 0 .. AnnealObst :
       /\ k <= w * h - 1
       /\ args = [w |-> w, h |-> h, obstacles |-> k]
       /\ best = NewPuzzle(w, h)
       /\ puzzle = NewPuzzle(w, h)
  /\ best_score = 0
  /\ walk = [i |-> 0, step |-> 0]
  /\ scored = {}
  /\ count = 0
  /\ v2 = NoV2
  /\ touched = {}
  /\ fsc = NoFsc
  /\ dists = ZeroBufs.dists
  /\ pass_dists = ZeroBufs.pass_dists
  /\ score = -1
  /\ start_coord = 0
  /\ budget = 0
  /\ caller = NoCaller
  /\ brute = -1
  /\ visited = << >>
  /\ rp = NoRp
  /\ decoded = TRUE
  /\ coord = 0

\* a run begins: Puzzle puzzle = make_random_puzzle(w,h,obstacles);
\* int score = max_distance(puzzle)
AnnealRun ==
  /\ pc = "a_for"
  /\ walk.i < AnnealRuns
  /\ \E q \in make_random_puzzle(args.w, args.h, args.obstacles) :
       \E r \in {max_distance(q, Bufs)} :
         /\ puzzle' = q
         /\ dists' = r.dists
         /\ pass_dists' = r.pass_dists
         /\ score' = r.ret
         /\ scored' = scored \cup {r.ret}
  /\ walk' = [walk EXCEPT !.step = 0]
  /\ pc' = "a_step"
  /\ UNCHANGED << best, best_score, args, start_coord, budget, caller, brute, visited,
                  rp, decoded, coord, count,
                  v2, touched, fsc >>

\* one step: random_change, score, compare with best, accept or revert
AnnealStep ==
  /\ pc = "a_step"
  /\ walk.step < Temperatures * STEP_PER_TEMPERATURE(args.obstacles)
  /\ \E q \in random_change(puzzle, args.obstacles) :
       \E r \in {max_distance(q, Bufs)} :
         /\ dists' = r.dists
         /\ pass_dists' = r.pass_dists
         /\ scored' = scored \cup {r.ret}
         /\ IF r.ret > best_score
            THEN best_score' = r.ret /\ best' = q
            ELSE UNCHANGED << best_score, best,
                  v2, touched, fsc >>
         /\ \E accept \in Accepts(r.ret, score) :
              IF ~accept
              THEN score' = score /\ puzzle' = puzzle
              ELSE score' = r.ret /\ puzzle' = q
  /\ walk' = [walk EXCEPT !.step = walk.step + 1]
  /\ UNCHANGED << pc, args, start_coord, budget, caller, brute, visited, rp, decoded, coord, count,
                  v2, touched, fsc >>

\* the temperature loop is over: ++i
AnnealRunEnd ==
  /\ pc = "a_step"
  /\ walk.step >= Temperatures * STEP_PER_TEMPERATURE(args.obstacles)
  /\ walk' = [i |-> walk.i + 1, step |-> 0]
  /\ pc' = "a_for"
  /\ UNCHANGED << puzzle, dists, pass_dists, score, best, best_score, args, start_coord,
                  budget, caller, brute, visited, rp, decoded, coord, scored, count,
                  v2, touched, fsc >>

\* return best
AnnealReturn ==
  /\ pc = "a_for"
  /\ walk.i >= AnnealRuns
  /\ puzzle' = best
  /\ pc' = "a_ret"
  /\ UNCHANGED << dists, pass_dists, score, best, best_score, args, start_coord, budget,
                  caller, brute, visited, rp, decoded, coord, walk, scored, count,
                  v2, touched, fsc >>

NextAnneal == AnnealRun \/ AnnealStep \/ AnnealRunEnd \/ AnnealReturn

SpecAnneal == InitAnneal /\ [][NextAnneal]_vars

(***************************************************************************)
(* SpecRelEnum: first_relative_puzzle(obstacles), then next_relative_puzzle *)
(* until it returns false                                                   *)
(***************************************************************************)
InitRelEnum ==
  /\ pc = "r_enum"
  /\ \E k \in 0 .. RelObst :
       /\ args = [w |-> 0, h |-> 0, obstacles |-> k]
       /\ rp = first_relative_puzzle(k)
  /\ puzzle = NewPuzzle(1, 1)
  /\ dists = ZeroBufs.dists
  /\ pass_dists = ZeroBufs.pass_dists
  /\ score = -1
  /\ best = NewPuzzle(1, 1)
  /\ best_score = -1
  /\ start_coord = 0
  /\ budget = 0
  /\ caller = NoCaller
  /\ brute = -1
  /\ visited = << >>
  /\ decoded = TRUE
  /\ coord = 0
  /\ walk = NoWalk
  /\ scored = {}
  /\ count = 0
  /\ v2 = NoV2
  /\ touched = {}
  /\ fsc = NoFsc

\* one pass of the search's loop without the scoring: count++;
\* if (!next_relative_puzzle(rp)) break
RelEnumNext ==
  /\ pc = "r_enum"
  /\ count' = count + 1
  /\ \E n \in {next_relative_puzzle(rp)} :
       /\ rp' = n.p
       /\ pc' = IF n.ok THEN "r_enum" ELSE "r_end"
  /\ UNCHANGED << puzzle, dists, pass_dists, score, best, best_score, args, start_coord,
                  budget, caller, brute, visited, decoded, coord, walk, scored,
                  v2, touched, fsc >>

NextRelEnum == RelEnumNext

SpecRelEnum == InitRelEnum /\ [][NextRelEnum]_vars

(***************************************************************************)
(* SpecRel: relative_puzzle_search(obstacles).  max_distance resets         *)
(* MAX_W*puzzle.h entries of dists and pass_dists: with puzzle.h > MAX_H    *)
(* the two fill_n calls write past the end of both arrays, which has no     *)
(* defined behaviour.  The model lets the process either stop there or      *)
(* carry on with the arrays filled to their end.                            *)
(***************************************************************************)
InitRel ==
  /\ pc = "rel_while"
  /\ \E k \in 0 .. RelObst :
       /\ args = [w |-> 0, h |-> 0, obstacles |-> k]
       /\ rp = first_relative_puzzle(k)
  /\ puzzle = NewPuzzle(1, 1)
  /\ best = NewPuzzle(1, 1)
  /\ best_score = -1
  /\ dists = ZeroBufs.dists
  /\ pass_dists = ZeroBufs.pass_dists
  /\ score = -1
  /\ start_coord = 0
  /\ budget = 0
  /\ caller = NoCaller
  /\ brute = -1
  /\ visited = << >>
  /\ decoded = TRUE
  /\ coord = 0
  /\ walk = NoWalk
  /\ scored = {}
  /\ count = 0
  /\ v2 = NoV2
  /\ touched = {}
  /\ fsc = NoFsc

\* one pass of the while (true) loop: rp.to_puzzle(puzzle), whose value is not
\* used; score = max_distance(puzzle); keep the puzzle if better; step rp on
RelWhile ==
  /\ pc = "rel_while"
  /\ \E d \in {to_puzzle(rp, puzzle)} :
       /\ d.p.h <= MAX_H
       /\ \E r \in {max_distance(d.p, Bufs)}, n \in {next_relative_puzzle(rp)} :
            /\ puzzle' = d.p
            /\ decoded' = d.ok
            /\ dists' = r.dists
            /\ pass_dists' = r.pass_dists
            /\ score' = r.ret
            /\ IF r.ret > best_score
               THEN best_score' = r.ret /\ best' = d.p
               ELSE UNCHANGED << best_score, best,
                  v2, touched, fsc >>
            /\ rp' = n.p
            /\ pc' = IF n.ok THEN "rel_while" ELSE "rel_ret"
  /\ count' = count + 1
  /\ UNCHANGED << args, start_coord, budget, caller, brute, visited, coord, walk, scored,
                  v2, touched, fsc >>

\* the same pass when to_puzzle left puzzle.h > MAX_H and the process carries on
RelWhileOverflow ==
  /\ pc = "rel_while"
  /\ \E d \in {to_puzzle(rp, puzzle)} :
       /\ d.p.h > MAX_H
       /\ \E r \in {max_distance(d.p, Bufs)}, n \in {next_relative_puzzle(rp)} :
            /\ puzzle' = d.p
            /\ decoded' = d.ok
            /\ dists' = r.dists
            /\ pass_dists' = r.pass_dists
            /\ score' = r.ret
            /\ IF r.ret > best_score
               THEN best_score' = r.ret /\ best' = d.p
               ELSE UNCHANGED << best_score, best,
                  v2, touched, fsc >>
            /\ rp' = n.p
            /\ pc' = IF n.ok THEN "rel_while" ELSE "rel_ret"
  /\ count' = count + 1
  /\ UNCHANGED << args, start_coord, budget, caller, brute, visited, coord, walk, scored,
                  v2, touched, fsc >>

\* the same pass when the writes past the end of the arrays stop the process
RelWhileCrash ==
  /\ pc = "rel_while"
  /\ \E d \in {to_puzzle(rp, puzzle)} :
       /\ d.p.h > MAX_H
       /\ puzzle' = d.p
       /\ decoded' = d.ok
  /\ pc' = "rel_crash"
  /\ count' = count + 1
  /\ UNCHANGED << dists, pass_dists, score, best, best_score, args, start_coord, budget,
                  caller, brute, visited, rp, coord, walk, scored,
                  v2, touched, fsc >>

NextRel == RelWhile \/ RelWhileOverflow \/ RelWhileCrash

SpecRel == InitRel /\ [][NextRel]_vars

(***************************************************************************)
(* SpecEmpty: one call of Puzzle::random_empty_coord, a pass of its loop at *)
(* a time.  The grid is any grid a caller can hold: any set of obstacle     *)
(* cells, the full set included, and any start cell, an obstacle cell       *)
(* included (greedy_optimize_from_random leaves the start at cell 0 while   *)
(* it places obstacles on any cell).                                        *)
(***************************************************************************)
InitEmpty ==
  /\ pc = "rec_while"
  /\ \E w \in 1 .. EmptyW, h \in 1 .. EmptyH :
       \E o \in SUBSET GridCells(w, h), s \in GridCells(w, h) : puzzle = MakePuzzle(w, h, o, s)
  /\ coord = 0
  /\ dists = ZeroBufs.dists
  /\ pass_dists = ZeroBufs.pass_dists
  /\ score = -1
  /\ best = NewPuzzle(1, 1)
  /\ best_score = -1
  /\ args = NoArgs
  /\ start_coord = 0
  /\ budget = 0
  /\ caller = NoCaller
  /\ brute = -1
  /\ visited = << >>
  /\ rp = NoRp
  /\ decoded = TRUE
  /\ walk = NoWalk
  /\ scored = {}
  /\ count = 0
  /\ v2 = NoV2
  /\ touched = {}
  /\ fsc = NoFsc

\* a pass that draws a cell the test rejects: the loop goes on
EmptyRetry ==
  /\ pc = "rec_while"
  /\ \E c \in random_coord(puzzle) :
       /\ ~IsEmptyCoord(puzzle, c)
       /\ coord' = c
  /\ UNCHANGED << pc, puzzle, dists, pass_dists, score, best, best_score, args, start_coord,
                  budget, caller, brute, visited, rp, decoded, walk, scored, count,
                  v2, touched, fsc >>

\* a pass that draws a cell the test accepts: return coord
EmptyReturn ==
  /\ pc = "rec_while"
  /\ \E c \in random_coord(puzzle) :
       /\ IsEmptyCoord(puzzle, c)
       /\ coord' = c
  /\ pc' = "rec_ret"
  /\ UNCHANGED << puzzle, dists, pass_dists, score, best, best_score, args, start_coord,
                  budget, caller, brute, visited, rp, decoded, walk, scored, count,
                  v2, touched, fsc >>

NextEmpty == EmptyRetry \/ EmptyReturn

\* fair random choice: a draw that stays possible at every pass is made at last
SpecEmpty == InitEmpty /\ [][NextEmpty]_vars /\ WF_vars(EmptyReturn)

(***************************************************************************)
(* SpecVersions: the same grid given to max_distance of the first version   *)
(* and to max_distance of the second, each in a fresh process               *)
(***************************************************************************)
\* the second version's puzzle of the same size, obstacles and start
MakePuzzle_v2(w, h, obst, start) ==
  [NewPuzzle_v2(w, h) EXCEPT !.start = start,
                             !.grid = [i \in DOMAIN @ |-> IF i \in obst THEN "T" ELSE @[i]]]

VersionObstacles(w, h) ==
  IF w * h <= DenseCells THEN SUBSET GridCells(w, h)
  ELSE UNION {KSubsets(GridCells(w, h), k) : k \in 0 .. VerObst}

InitVersions ==
  /\ pc = "v_call"
  /\ \E w \in 1 .. MAX_W - 1, h \in 1 .. MAX_H :
       \E o \in VersionObstacles(w, h), s \in GridCells(w, h) :
         /\ puzzle = MakePuzzle(w, h, o, s)
         /\ visited = << o >>
  /\ dists = ZeroBufs.dists
  /\ pass_dists = ZeroBufs.pass_dists
  /\ score = -1
  /\ best = NewPuzzle(1, 1)
  /\ best_score = -1
  /\ args = NoArgs
  /\ start_coord = 0
  /\ budget = 0
  /\ caller = NoCaller
  /\ brute = -1
  /\ rp = NoRp
  /\ decoded = TRUE
  /\ coord = 0
  /\ walk = NoWalk
  /\ scored = {}
  /\ count = 0
  /\ v2 = NoV2
  /\ touched = {}
  /\ fsc = NoFsc

Versions ==
  /\ pc = "v_call"
  /\ \E s \in {SolverExit(puzzle, Bufs)} :
       /\ dists' = s.dists
       /\ pass_dists' = s.pass_dists
       /\ score' = s.max_dist
       /\ touched' = LoopIndexes(puzzle, s.queue)
  /\ v2' = max_distance_v2(MakePuzzle_v2(puzzle.w, puzzle.h, visited[1], puzzle.start), ZeroBufs)
  /\ pc' = "v_ret"
  /\ UNCHANGED << puzzle, best, best_score, args, start_coord, budget, caller, brute, visited,
                  rp, decoded, coord, walk, scored, count, fsc >>

NextVersions == Versions

SpecVersions == InitVersions /\ [][NextVersions]_vars

(***************************************************************************)
(* Reference semantics of the puzzle, on (x, y) cells and independent of    *)
(* the storage layout: a slide-move goes in a cardinal direction until the  *)
(* next cell is an obstacle or lies beyond the edge.                        *)
(***************************************************************************)
Steps == { << -1, 0 >>, << 1, 0 >>, << 0, -1 >>, << 0, 1 >> }

IsObstacle(p, x, y) == p.grid[GridOffset + Coord(x, y)] = "T"
Blocked(p, x, y) == x < 0 \/ x >= p.w \/ y < 0 \/ y >= p.h \/ IsObstacle(p, x, y)

\* the cell a slide from (x, y) in direction d comes to rest at
RECURSIVE RestAt(_, _, _, _)
RestAt(p, x, y, d) ==
  IF Blocked(p, x + d[1], y + d[2]) THEN << x, y >> ELSE RestAt(p, x + d[1], y + d[2], d)

\* the cells a slide from (x, y) in direction d traverses or ends on
RECURSIVE Passed(_, _, _, _)
Passed(p, x, y, d) ==
  IF Blocked(p, x + d[1], y + d[2]) THEN {}
  ELSE { << x + d[1], y + d[2] >> } \cup Passed(p, x + d[1], y + d[2], d)

\* Layers[k+1] is the set of cells that some sequence of k slide-moves from the
\* start rests at and no shorter sequence does
RECURSIVE LayersFrom(_, _, _)
LayersFrom(p, seen, frontier) ==
  IF frontier = {} THEN << >>
  ELSE LET known == seen \cup frontier
           next == {RestAt(p, c[1], c[2], d) : c \in frontier, d \in Steps} \ known
       IN << frontier >> \o LayersFrom(p, known, next)
Layers(p) == LayersFrom(p, {}, { << col(p.start), row(p.start) >> })

\* length of the shortest sequence of slide-moves from the start that rests at
\* each cell, UNREACHABLE where there is none
ShortestStop(p) ==
  LET L == Layers(p) IN
  [c \in CellSet(p) |->
     IF \E k \in 1 .. Len(L) : << col(c), row(c) >> \in L[k]
     THEN (CHOOSE k \in 1 .. Len(L) : << col(c), row(c) >> \in L[k]) - 1
     ELSE UNREACHABLE]

SetMax(S) == CHOOSE m \in S : \A x \in S : x <= m

\* the distance maps on the cells of the puzzle the driver holds
Returned == pc = "return"
StopMap == [c \in CellSet(puzzle) |-> dists[c]]
PassMap == [c \in CellSet(puzzle) |-> pass_dists[c]]

\* C1: after max_distance returns, dists[c] is, for every cell c of the grid, the
\* length of the shortest sequence of slide-moves from the start that comes to
\* rest at c, and UNREACHABLE when there is none.
C1_StopDistanceIsShortest ==
  Returned => StopMap = ShortestStop(puzzle)

\* C1 witness: a solved puzzle with obstacles where some cell needs three moves
\* to rest at and some empty cell cannot be rested at.
C1_Witness ==
  /\ Returned
  /\ count_obstacles(puzzle) >= 2
  /\ \E c \in CellSet(puzzle) : dists[c] = 3
  /\ \E c \in CellSet(puzzle) : ~At(puzzle, c) /\ dists[c] = UNREACHABLE

\* C2: the value max_distance returns is the maximum of pass_dists over the cells
\* of the grid whose pass distance is not UNREACHABLE.
C2_ReturnIsMaxPass ==
  Returned =>
    score = SetMax({pass_dists[c] : c \in {c \in CellSet(puzzle) : pass_dists[c] # UNREACHABLE}})

\* C2 witness: a solved puzzle whose farthest cell is four moves away.
C2_Witness == Returned /\ score = 4 /\ \E c \in CellSet(puzzle) : pass_dists[c] = 4

\* C7 as stated: every scored grid satisfies max_distance <= 4*count_obstacles + 1,
\* for every obstacle count including 0.
C7_Original == Returned => score <= 4 * count_obstacles(puzzle) + 1

\* C7 (amended): max_distance <= 4*count_obstacles + 1 for every grid with at least
\* one obstacle, and max_distance <= 2 for a grid with none.
C7_MoveBound ==
  Returned =>
    LET k == count_obstacles(puzzle) IN
    IF k = 0 THEN score <= 2 ELSE score <= 4 * k + 1

\* C7 witness: a solved grid with one obstacle that attains the bound, 5 moves.
C7_Witness == Returned /\ count_obstacles(puzzle) = 1 /\ score = 5

\* C8 as stated: an obstacle-free grid other than 1x1 scores 1, whatever the start.
C8_Original ==
  (Returned /\ count_obstacles(puzzle) = 0 /\ ~(puzzle.w = 1 /\ puzzle.h = 1)) => score = 1

\* C8 (amended): for an obstacle-free grid max_distance returns 0 on the 1x1 grid,
\* 1 when exactly one of w, h is 1, and 2 when both are at least 2, for every start.
C8_EmptyGridScore ==
  (Returned /\ count_obstacles(puzzle) = 0) =>
    score = (IF puzzle.w = 1 /\ puzzle.h = 1 THEN 0
             ELSE IF puzzle.w = 1 \/ puzzle.h = 1 THEN 1 ELSE 2)

\* C8 witness: a solved obstacle-free grid, at least 2 by 2, started off the border.
C8_Witness ==
  /\ Returned /\ count_obstacles(puzzle) = 0 /\ score = 2
  /\ puzzle.w >= 3 /\ puzzle.h >= 3
  /\ col(puzzle.start) = 1 /\ row(puzzle.start) = 1

(***************************************************************************)
(* Enumeration and exhaustive search                                        *)
(***************************************************************************)
RECURSIVE Binomial(_, _)
Binomial(n, k) ==
  IF k = 0 THEN 1 ELSE IF k > n THEN 0 ELSE Binomial(n - 1, k - 1) + Binomial(n - 1, k)

Range(seq) == {seq[i] : i \in 1 .. Len(seq)}
FreeCells == GridCells(args.w, args.h) \ {puzzle.start}

\* C4: for a fixed start, first_puzzle followed by next_puzzle until it returns
\* false produces C(w*h-1, k) obstacle sets and then stops: every k-subset of the
\* non-start cells, each exactly once.
C4_EnumeratesEachSubsetOnce ==
  /\ pc = "enum" =>
       /\ Len(visited) <= Binomial(args.w * args.h - 1, args.obstacles)
       /\ visited[Len(visited)] = Obstacles(puzzle)
       /\ \A i \in 1 .. Len(visited) - 1 : visited[i] # visited[Len(visited)]
  /\ pc = "end" =>
       /\ Len(visited) = Binomial(args.w * args.h - 1, args.obstacles)
       /\ Cardinality(Range(visited)) = Len(visited)
       /\ Range(visited) = KSubsets(FreeCells, args.obstacles)

\* C4 witness: an enumeration that has ended after more than 50 obstacle sets, on
\* a puzzle whose start is its last cell.
C4_Witness ==
  /\ pc = "end"
  /\ Len(visited) > 50
  /\ puzzle.start = Coord(args.w - 1, args.h - 1)

\* the images of a puzzle under the mirrorings of the grid and, for a square
\* grid, its transposition
MapPuzzle(p, w, h, f(_)) == MakePuzzle(w, h, {f(c) : c \in Obstacles(p)}, f(p.start))
MirrorCols(p) == LET f(c) == Coord(p.w - 1 - col(c), row(c)) IN MapPuzzle(p, p.w, p.h, f)
MirrorRows(p) == LET f(c) == Coord(col(c), p.h - 1 - row(c)) IN MapPuzzle(p, p.w, p.h, f)
Transpose(p) == LET f(c) == Coord(row(c), col(c)) IN MapPuzzle(p, p.h, p.w, f)
Mirrored(p) == {p, MirrorCols(p), MirrorRows(p), MirrorRows(MirrorCols(p))}
Images(p) ==
  Mirrored(p) \cup (IF p.w = p.h THEN {Transpose(q) : q \in Mirrored(p)} ELSE {})

\* C3: brute_force_search(w,h,k) returns a grid with k obstacles whose score is
\* the maximum of max_distance over all w-by-h grids with exactly k obstacles and
\* any non-obstacle start; every grid whose start the symmetry filter skips has a
\* mirror or transposed image with a retained start and the same score.
C3_BruteForceIsOptimal ==
  pc = "done" =>
    LET all == Layouts(args.w, args.h, args.obstacles) IN
    /\ best.w = args.w /\ best.h = args.h
    /\ count_obstacles(best) = args.obstacles
    /\ ~At(best, best.start)
    /\ Score(best) = best_score
    /\ best_score = SetMax({Score(q) : q \in all})
    /\ \A q \in all :
         SkipStart(q.start, args.w, args.h) =>
           \E g \in Images(q) : ~SkipStart(g.start, args.w, args.h) /\ Score(g) = Score(q)

\* C3 witness: a finished search of a square grid with two obstacles, whose best
\* grid is also reached from starts the filter skipped.
C3_Witness ==
  /\ pc = "done"
  /\ args.w = 3 /\ args.h = 3 /\ args.obstacles = 2
  /\ \E q \in Layouts(3, 3, 2) : SkipStart(q.start, 3, 3) /\ Score(q) = best_score

\* C9: on the grid 7 wide and 6 high with exactly 3 obstacles, brute_force_search
\* scores only grids with 3 obstacles, none of them scores more than 11 moves, the
\* best score at return is 11, and the README's 3-obstacle puzzle scores 11.
C9_ReadmeBestIsEleven ==
  /\ pc = "while" =>
       /\ puzzle.w = ReadmeW /\ puzzle.h = ReadmeH
       /\ count_obstacles(puzzle) = ReadmeObstacles
  /\ best_score <= ReadmeMoves
  /\ pc = "done" =>
       /\ best_score = ReadmeMoves
       /\ count_obstacles(best) = ReadmeObstacles
       /\ Score(best) = ReadmeMoves
       /\ Score(ReadmePuzzle) = ReadmeMoves

\* C9 witness: the search is under way on the 7 by 6 grid and holds a best grid
\* with 3 obstacles that scores 11, the score of the README's puzzle.
C9_Witness ==
  /\ pc = "while"
  /\ best_score = ReadmeMoves
  /\ best.w = ReadmeW /\ best.h = ReadmeH
  /\ count_obstacles(best) = ReadmeObstacles
  /\ Score(best) = ReadmeMoves
  /\ count_obstacles(ReadmePuzzle) = ReadmeObstacles
  /\ Score(ReadmePuzzle) = best_score

C6_BruteForceDominates == pc = "r_done" => score <= brute

\* the cells some sequence of slide-moves from the start traverses or rests at
ReachableCells(p) ==
  LET rest == UNION Range(Layers(p)) IN
  rest \cup UNION {Passed(p, c[1], c[2], d) : c \in rest, d \in Steps}

\* the single changes of p: one obstacle moved to a reachable empty cell that is
\* not the start, or the start moved to another empty cell
Neighbours(p) ==
  LET obst == Obstacles(p)
      free == CellSet(p) \ (obst \cup {p.start})
      reach == {c \in free : << col(c), row(c) >> \in ReachableCells(p)}
  IN {MakePuzzle(p.w, p.h, (obst \ {o}) \cup {a}, p.start) : o \in obst, a \in reach}
     \cup {MakePuzzle(p.w, p.h, obst, a) : a \in free}

\* C10: greedy_optimize returns on every valid initial grid, and no single change
\* of the grid it returns scores strictly more than the grid itself.
C10_GreedyEndsAtLocalOptimum ==
  /\ <>(pc = "g_ret")
  /\ [](pc = "g_ret" => \A n \in Neighbours(puzzle) : Score(n) <= Score(puzzle))

\* C10 witness: greedy_optimize has returned after three passes, two of which
\* found a better grid, and the grid returned has single changes of both kinds.
C10_Witness ==
  /\ pc = "g_ret"
  /\ Len(visited) >= 3
  /\ \E n \in Neighbours(puzzle) : n.start = puzzle.start
  /\ \E n \in Neighbours(puzzle) : n.start # puzzle.start
(***************************************************************************)
(* Simulated annealing                                                      *)
(***************************************************************************)
\* C11 as stated: the grid simulated_annealing_search returns scores at least as
\* much as every grid that was scored during the search, in any run.
C11_ReturnsBestScored ==
  pc = "a_ret" => \A s \in scored : Score(puzzle) >= s
(***************************************************************************)
(* Relative position search                                                 *)
(***************************************************************************)
\* C12 as stated: in the relative-position search an encoding point whose decoding
\* fails is skipped: the grid max_distance was last called on was decoded with
\* to_puzzle returning true, its w and h lie in 1 .. MAX_W and 1 .. MAX_H, and so
\* do those of the best grid.
C12_FailedDecodeIsSkipped ==
  (pc \in {"rel_while", "rel_ret"} /\ score # -1) =>
    /\ decoded
    /\ puzzle.w \in 1 .. MAX_W /\ puzzle.h \in 1 .. MAX_H
    /\ best.w \in 1 .. MAX_W /\ best.h \in 1 .. MAX_H
\* the cell to_puzzle decodes object i of r onto, as (x, y)
ObjectCell(r, i) ==
  << to_coords(r.horizontal_pos, r.num_objects).coords[i],
     to_coords(r.vertical_pos, r.num_objects).coords[r.permutation[i]] >>

\* C13 as stated: every RelativePuzzle reached from first_relative_puzzle(k) by
\* next_relative_puzzle steps places its k+1 objects on pairwise distinct cells,
\* so that every grid decoded from it has exactly k obstacles and a start cell
\* that is not an obstacle.
C13_ObjectsAreDistinct ==
  /\ \A i, j \in 0 .. rp.num_objects - 1 : i # j => ObjectCell(rp, i) # ObjectCell(rp, j)
  /\ LET d == to_puzzle(rp, NewPuzzle(1, 1)) IN
     d.ok => count_obstacles(d.p) = args.obstacles /\ ~At(d.p, d.p.start)
\* the triples of the enumeration for k obstacles: gap vectors with outer gaps in
\* {NEXT, SKIP} and inner gaps in {SAME, NEXT, SKIP}, a permutation of 0 .. k with
\* 2*permutation[0] <= k+1, and a start_index with 2*start_index < k+1
CanonicalPerms(n) == {f \in Permutations(0 .. n - 1) : 2 * f[0] <= n}
StartIndexes(n) == {i \in 0 .. n : 2 * i < n}
GapsOf(n, i) == IF i = 0 \/ i = n THEN {"NEXT", "SKIP"} ELSE RelativePosition
IsTriple(r, k) ==
  LET n == k + 1 IN
  /\ r.num_objects = n
  /\ DOMAIN r.horizontal_pos = 0 .. n /\ DOMAIN r.vertical_pos = 0 .. n
  /\ \A i \in 0 .. n : r.horizontal_pos[i] \in GapsOf(n, i) /\ r.vertical_pos[i] \in GapsOf(n, i)
  /\ r.permutation \in CanonicalPerms(n)
  /\ r.start_index \in StartIndexes(n)

\* the place of a triple in the order of the enumeration: start_index varies
\* fastest, then the permutation in lexicographic (next-permutation) order, then
\* the gap vector as a mixed-radix counter whose digits are horizontal_pos[0],
\* vertical_pos[0], horizontal_pos[1], ..., the first one the least significant
Digit(pos, n, i) ==
  IF i = 0 \/ i = n
  THEN (CASE pos = "NEXT" -> 0 [] pos = "SKIP" -> 1)
  ELSE (CASE pos = "SAME" -> 0 [] pos = "NEXT" -> 1 [] pos = "SKIP" -> 2)
Radix(n, i) == Cardinality(GapsOf(n, i))
RECURSIVE Weight(_, _)
Weight(n, i) == IF i = 0 THEN 1 ELSE Weight(n, i - 1) * Radix(n, i - 1) * Radix(n, i - 1)
RECURSIVE GapValueFrom(_, _)
GapValueFrom(r, i) ==
  IF i > r.num_objects THEN 0
  ELSE LET n == r.num_objects IN
       Weight(n, i) * (Digit(r.horizontal_pos[i], n, i) + Radix(n, i) * Digit(r.vertical_pos[i], n, i))
       + GapValueFrom(r, i + 1)
LexLess(a, b, n) ==
  \E i \in 0 .. n - 1 : a[i] < b[i] /\ \A j \in 0 .. i - 1 : a[j] = b[j]
PermRank(a, n) == Cardinality({f \in CanonicalPerms(n) : LexLess(f, a, n)})
Rank(r) ==
  LET n == r.num_objects IN
  r.start_index
  + Cardinality(StartIndexes(n))
    * (PermRank(r.permutation, n) + Cardinality(CanonicalPerms(n)) * GapValueFrom(r, 0))
Total(k) ==
  Cardinality(StartIndexes(k + 1)) * Cardinality(CanonicalPerms(k + 1)) * Weight(k + 1, k + 2)

\* C18: starting from first_relative_puzzle(k), next_relative_puzzle is applied
\* until it returns false, which it does at the call number Total(k), the number
\* of triples, and at no other; the points tried are triples, the one tried after
\* count others is the triple at place count of the order (start_index fastest,
\* then the permutation in next-permutation order, then the gap vector as a
\* mixed-radix counter), so every triple is tried exactly once; and
\* next_relative_puzzle returns false exactly when the last gap position wraps.
C18_EnumeratesEachTripleOnce ==
  /\ [](pc = "r_enum" =>
         /\ IsTriple(rp, args.obstacles)
         /\ Rank(rp) = count
         /\ count < Total(args.obstacles))
  /\ [](pc = "r_end" => count = Total(args.obstacles))
  /\ [][(pc' = "r_end") <=> (/\ rp.vertical_pos[rp.num_objects] = "SKIP"
                             /\ rp'.vertical_pos[rp.num_objects] = "NEXT")]_vars

\* C18 witness: the enumeration for 2 obstacles has ended after more than 10000
\* points.
C18_Witness == pc = "r_end" /\ args.obstacles = 2 /\ count > 10000

\* C19: in every RelativePuzzle reached from first_relative_puzzle(k) by
\* next_relative_puzzle, the one left after it returned false included, the outer
\* gaps horizontal_pos[0], horizontal_pos[k+1], vertical_pos[0], vertical_pos[k+1]
\* are not SAME, permutation[0..k] is a permutation of 0..k with
\* permutation[0] <= (k+1)/2, and 0 <= start_index <= (k+1)/2.
C19_CanonicalForm ==
  LET k == args.obstacles IN
  /\ rp.horizontal_pos[0] # "SAME" /\ rp.horizontal_pos[k + 1] # "SAME"
  /\ rp.vertical_pos[0] # "SAME" /\ rp.vertical_pos[k + 1] # "SAME"
  /\ rp.permutation \in Permutations(0 .. k)
  /\ rp.permutation[0] <= (k + 1) \div 2
  /\ 0 <= rp.start_index /\ rp.start_index <= (k + 1) \div 2

\* C19 witness: a point with 2 obstacles whose outer gaps have all been advanced,
\* with permutation[0] and start_index at the largest values allowed.
C19_Witness ==
  /\ pc = "r_enum" /\ args.obstacles = 2
  /\ rp.horizontal_pos[0] = "SKIP" /\ rp.horizontal_pos[3] = "SKIP"
  /\ rp.vertical_pos[0] = "SKIP" /\ rp.vertical_pos[3] = "SKIP"
  /\ rp.permutation[0] = 1 /\ rp.start_index = 1
(***************************************************************************)
(* random_empty_coord                                                       *)
(***************************************************************************)
\* the cells of p inside [0,w) x [0,h) that are no obstacle and not the start
EmptyNonStart(p) ==
  {c \in {Coord(x, y) : x \in 0 .. p.w - 1, y \in 0 .. p.h - 1} :
     ~IsObstacle(p, col(c), row(c)) /\ c # p.start}

\* C14: random_empty_coord returns only a cell inside [0,w) x [0,h) that is not an
\* obstacle and differs from the start; when the grid has no such cell it never
\* returns and reports no error (it stays in its loop); when there is one it
\* returns, under fair random choice.
C14_RandomEmptyCoord ==
  /\ [](pc = "rec_ret" => coord \in EmptyNonStart(puzzle))
  /\ (EmptyNonStart(puzzle) = {}) => [](pc = "rec_while")
  /\ (EmptyNonStart(puzzle) # {}) => <>(pc = "rec_ret")

\* C14 witness: the call has returned on a grid with obstacles that has a single
\* empty cell besides the start.
C14_Witness ==
  /\ pc = "rec_ret"
  /\ count_obstacles(puzzle) >= 2
  /\ ~At(puzzle, puzzle.start)
  /\ Cardinality(EmptyNonStart(puzzle)) = 1
(***************************************************************************)
(* Pass distances                                                           *)
(***************************************************************************)
\* the resting cells (those with a stop distance) from which a slide in some
\* direction traverses or ends on the cell c
PassedFrom(p, c) ==
  {r \in CellSet(p) : /\ dists[r] # UNREACHABLE
                      /\ \E d \in Steps : << col(c), row(c) >> \in Passed(p, col(r), row(r), d)}

SetMin(S) == CHOOSE m \in S : \A x \in S : m <= x

\* C15: after max_distance returns, pass_dists[start] = 0; for every other cell c
\* pass_dists[c] is 1 + the least dists[r] over the resting cells r from which a
\* slide in some direction traverses or ends on c, and UNREACHABLE if there is
\* none; and pass_dists[c] <= dists[c] for every cell c.
C15_PassDistance ==
  Returned =>
    /\ pass_dists[puzzle.start] = 0
    /\ \A c \in CellSet(puzzle) \ {puzzle.start} :
         pass_dists[c] = (IF PassedFrom(puzzle, c) = {} THEN UNREACHABLE
                          ELSE 1 + SetMin({dists[r] : r \in PassedFrom(puzzle, c)}))
    /\ \A c \in CellSet(puzzle) : pass_dists[c] <= dists[c]

\* C15 witness: a solved grid with obstacles on which one cell is passed earlier
\* than it is rested at, one is passed at distance 3 and never rested at, and
\* one empty cell is never passed.
C15_Witness ==
  /\ Returned
  /\ count_obstacles(puzzle) >= 1
  /\ \E c \in CellSet(puzzle) : pass_dists[c] < dists[c] /\ dists[c] < UNREACHABLE
  /\ \E c \in CellSet(puzzle) : pass_dists[c] = 3 /\ dists[c] = UNREACHABLE
  /\ \E c \in CellSet(puzzle) : ~At(puzzle, c) /\ pass_dists[c] = UNREACHABLE
(***************************************************************************)
(* next_puzzle: what a call leaves alone                                    *)
(***************************************************************************)
\* the grid entries of p other than those of its w x h cells
OutsideCells(p) == {i \in DOMAIN p.grid : i - GridOffset \notin CellSet(p)}

\* C16: every call of next_puzzle, returning true or false, leaves the number of
\* obstacles, the start cell and w, h unchanged, does not set the obstacle flag
\* of the start cell and writes no cell outside [0,w) x [0,h); a call that
\* returns false leaves the obstacle set unchanged.
C16_NextPuzzleFrame ==
  [][pc = "enum" =>
       /\ count_obstacles(puzzle') = count_obstacles(puzzle)
       /\ puzzle'.start = puzzle.start
       /\ puzzle'.w = puzzle.w /\ puzzle'.h = puzzle.h
       /\ ~At(puzzle', puzzle.start)
       /\ \A i \in OutsideCells(puzzle) : puzzle'.grid[i] = puzzle.grid[i]
       /\ (pc' = "end" => Obstacles(puzzle') = Obstacles(puzzle))]_vars

\* C16 witness: an enumeration of grids of two obstacles or more, with the start
\* cell inside the row-major order and not at its ends, after calls that
\* returned true and the call that returned false.
C16_Witness ==
  /\ pc = "end"
  /\ Len(visited) >= 10
  /\ count_obstacles(puzzle) >= 2
  /\ puzzle.start \notin {0, Coord(puzzle.w - 1, puzzle.h - 1)}
(***************************************************************************)
(* next_puzzle: the successor                                               *)
(***************************************************************************)
\* the cells of p in iteration order, the start cell left out
Order(p) == SelectSeq(Cells(p), LAMBDA c : c # p.start)

\* the first contiguous block of the obstacle set O in the order ord: the
\* positions of its first and of its last obstacle
BlockFirst(ord, O) ==
  CHOOSE j \in 1 .. Len(ord) : ord[j] \in O /\ \A k \in 1 .. j - 1 : ord[k] \notin O
BlockLast(ord, O) ==
  CHOOSE e \in BlockFirst(ord, O) .. Len(ord) :
    /\ \A k \in BlockFirst(ord, O) .. e : ord[k] \in O
    /\ e = Len(ord) \/ ord[e + 1] \notin O

\* the block shifted one position towards the low end
ShiftedLow(ord, O) ==
  (O \ {ord[BlockLast(ord, O)]}) \cup {ord[BlockFirst(ord, O) - 1]}

\* the last obstacle of the block one position up, the others of the block on
\* the lowest positions of the order
Successor(ord, O) ==
  LET j == BlockFirst(ord, O)
      e == BlockLast(ord, O)
  IN (O \ {ord[k] : k \in j .. e}) \cup {ord[k] : k \in 1 .. e - j} \cup {ord[e + 1]}

\* C17 as stated: when next_puzzle returns true, the successor is the grid with
\* the first contiguous block of obstacles shifted one position towards the low
\* end, the freed high position clear, all other cells unchanged.
C17_Original ==
  [][(pc = "enum" /\ pc' = "enum") =>
       /\ BlockFirst(Order(puzzle), Obstacles(puzzle)) > 1
       /\ Obstacles(puzzle') = ShiftedLow(Order(puzzle), Obstacles(puzzle))]_vars

\* C17 amended: when next_puzzle returns true, the first contiguous block of
\* obstacles (cell iteration order, start cell excluded) is followed by a clear
\* cell; in the successor the last obstacle of the block is on that cell, the
\* other obstacles of the block are on the lowest positions of the order, and
\* all other cells are unchanged.
C17_Successor ==
  [][(pc = "enum" /\ pc' = "enum") =>
       /\ Obstacles(puzzle) # {}
       /\ BlockLast(Order(puzzle), Obstacles(puzzle)) < Len(Order(puzzle))
       /\ Obstacles(puzzle') = Successor(Order(puzzle), Obstacles(puzzle))
       /\ puzzle'.grid = [i \in DOMAIN puzzle.grid |->
                            IF i - GridOffset \in CellSet(puzzle)
                            THEN (IF i - GridOffset \in Obstacles(puzzle') THEN "T" ELSE "F")
                            ELSE puzzle.grid[i]]]_vars

\* C17 witness: next_puzzle has returned true on a grid whose first block had
\* two obstacles or more, did not begin at the first position of the order and
\* was not the only block.
C17_Witness ==
  /\ pc = "enum"
  /\ Len(visited) >= 2
  /\ LET O == visited[Len(visited) - 1]
         ord == Order(puzzle)
     IN /\ BlockFirst(ord, O) > 1
        /\ BlockLast(ord, O) > BlockFirst(ord, O)
        /\ Cardinality(O) > BlockLast(ord, O) - BlockFirst(ord, O) + 1
        /\ Obstacles(puzzle) = Successor(ord, O)
        /\ Obstacles(puzzle) # ShiftedLow(ord, O)
(***************************************************************************)
(* The two versions of the solver                                           *)
(***************************************************************************)
\* both versions return the same value and leave the same dists and pass_dists
\* on the cells of [0,w) x [0,h)
SameOnCells ==
  /\ score = v2.ret
  /\ \A c \in CellSet(puzzle) : dists[c] = v2.dists[c] /\ pass_dists[c] = v2.pass_dists[c]

\* C20 as stated: on every grid with 0 < w <= MAX_W-1 and 0 < h <= MAX_H, any
\* obstacle set and any start, the sentinel solver and the bounds-checking solver
\* return the same value and the same dists and pass_dists on the cells of
\* [0,w) x [0,h), and the sentinel solver indexes no distance entry outside
\* the logical grid.
C20_Original ==
  pc = "v_ret" =>
    /\ SameOnCells
    /\ (touched \cup ResetIndexes(puzzle)) \subseteq CellSet(puzzle)

\* C20 amended: the two solvers agree as stated; the loop of the sentinel solver
\* indexes distance entries of logical cells only; its reset writes UNREACHABLE
\* to the first MAX_W*h entries of each buffer, the columns w .. MAX_W-1 of the
\* rows below h included, and every other entry is left as it was.
C20_VersionsAgree ==
  pc = "v_ret" =>
    /\ SameOnCells
    /\ touched \subseteq CellSet(puzzle)
    /\ \A i \in (0 .. BufSize - 1) \ CellSet(puzzle) :
         IF i < MAX_W * puzzle.h
         THEN dists[i] = UNREACHABLE /\ pass_dists[i] = UNREACHABLE
         ELSE dists[i] = ZeroBufs.dists[i] /\ pass_dists[i] = ZeroBufs.pass_dists[i]

\* C20 witness: both solvers have run on a grid of the largest width and height,
\* with an obstacle, where the score is 3 or more and some cell is unreachable.
C20_Witness ==
  /\ pc = "v_ret"
  /\ puzzle.w = MAX_W - 1 /\ puzzle.h = MAX_H
  /\ count_obstacles(puzzle) >= 1
  /\ score >= 3 /\ v2.ret = score
  /\ \E c \in CellSet(puzzle) : ~At(puzzle, c) /\ v2.dists[c] = UNREACHABLE
(***************************************************************************)
(* simulated_annealing_search: the grids of the walk                        *)
(***************************************************************************)
\* p has exactly `obstacles` obstacle cells and a start cell that is a cell of
\* the grid and not an obstacle
WalkGrid(p) ==
  /\ count_obstacles(p) = args.obstacles
  /\ p.start \in CellSet(p)
  /\ ~At(p, p.start)

\* the walk holds a grid: inside a run, or between two runs
WalkHolds == pc = "a_step" \/ (pc = "a_for" /\ walk.i > 0)

\* C21: in simulated_annealing_search the grid of the walk, after
\* make_random_puzzle, after each random_change and after each revert, has
\* exactly `obstacles` obstacle cells and a start cell that is not an obstacle;
\* score is max_distance of the grid the walk holds; and a step either keeps a
\* grid random_change made, with its score, or restores grid and score exactly.
C21_WalkGrids ==
  /\ [](WalkHolds =>
          /\ WalkGrid(puzzle)
          /\ score = Score(puzzle)
          /\ \A q \in random_change(puzzle, args.obstacles) : WalkGrid(q))
  /\ [][(pc = "a_step" /\ pc' = "a_step") =>
          \/ puzzle' = puzzle /\ score' = score
          \/ /\ puzzle' \in random_change(puzzle, args.obstacles)
             /\ score' = Score(puzzle')]_vars

\* C21 witness: the first step of a walk with two obstacles was rejected: the
\* perturbed grid scored less than the grid the walk holds, and the walk still
\* holds the grid and the score it had.
C21_Witness ==
  /\ pc = "a_step"
  /\ walk.i = 0 /\ walk.step = 1
  /\ args.obstacles = 2
  /\ \E s \in scored : s < score
  /\ score = Score(puzzle)
(***************************************************************************)
(* greedy_optimize: candidates and best                                     *)
(***************************************************************************)
\* p has the w, h and number of obstacles of the initial grid, and a start cell
\* that is a cell of the grid and not an obstacle
LikeInitial(p) ==
  /\ p.w = puzzle.w /\ p.h = puzzle.h
  /\ count_obstacles(p) = count_obstacles(puzzle)
  /\ p.start \in CellSet(p)
  /\ ~At(p, p.start)

\* C22: throughout greedy_optimize every candidate for_single_changes passes to
\* the callback and every value of best has the w, h and number of obstacles of
\* the initial grid and a start cell that is not an obstacle; best_score equals
\* max_distance(best), never decreases, and the returned grid scores at least
\* what the initial grid scores; the input grid of for_single_changes is not
\* modified while it runs.
C22_GreedyKeepsShape ==
  /\ [](pc \in {"s_while", "s_fun", "s_ret"} =>
          /\ LikeInitial(best)
          /\ best_score = Score(best)
          /\ best_score >= Score(puzzle))
  /\ [](pc = "s_fun" /\ fsc.n < Len(Candidates(fsc)) => LikeInitial(Candidates(fsc)[fsc.n + 1]))
  /\ [][pc # "s_call" => best_score' >= best_score]_vars
  /\ [][pc = "s_fun" => fsc'.puzzle = fsc.puzzle /\ fsc'.reachable = fsc.reachable]_vars

\* C22 witness: inside a pass over a grid of two obstacles the callback has
\* replaced best by a better candidate, and for_single_changes has more
\* candidates of its input grid to pass.
C22_Witness ==
  /\ pc = "s_fun"
  /\ count_obstacles(puzzle) = 2
  /\ best # fsc.puzzle
  /\ best_score > Score(fsc.puzzle)
  /\ fsc.n < Len(Candidates(fsc))
(***************************************************************************)
(* RelativePuzzle::to_puzzle: the grid it decodes                           *)
(***************************************************************************)
\* the extent is one the storage of Puzzle supports: with the sentinel ring the
\* largest puzzle is MAX_W-1 by MAX_H (line 58)
FitsStorage(p) ==
  /\ 0 < p.w /\ p.w <= (IF SENTINELS THEN MAX_W - 1 ELSE MAX_W)
  /\ 0 < p.h /\ p.h <= MAX_H

\* every object of r is decoded onto a cell of [0,w) x [0,h) of p
ObjectsInside(r, p) ==
  \A i \in 0 .. r.num_objects - 1 :
    /\ ObjectCell(r, i)[1] \in 0 .. p.w - 1
    /\ ObjectCell(r, i)[2] \in 0 .. p.h - 1

\* a cell of [0,w) x [0,h) reads as an obstacle exactly if an object of r other
\* than the start is decoded onto it
ObstaclesAreObjects(r, p) ==
  \A x \in 0 .. p.w - 1, y \in 0 .. p.h - 1 :
    At(p, Coord(x, y)) <=>
      \E i \in 0 .. r.num_objects - 1 : i # r.start_index /\ ObjectCell(r, i) = << x, y >>

\* C23 as stated: whenever rp.to_puzzle(puzzle) returns true, w and h of the
\* decoded grid are positive and within what the storage supports, every object
\* lies in [0,w) x [0,h), and a cell of [0,w) x [0,h) reads as an obstacle if
\* and only if a non-start object was decoded onto it.
C23_DecodedGridIsValid ==
  [][(pc = "rel_while" /\ decoded') =>
       /\ FitsStorage(puzzle')
       /\ ObjectsInside(rp, puzzle')
       /\ ObstaclesAreObjects(rp, puzzle')]_vars
====
